---- MODULE Spec2Model ----
(***************************************************************************)
(* Model of the cross-source model identity resolution of which-llm:      *)
(* the slug normalizers and find_match of src/merge/matcher.rs, and the   *)
(* models.dev fallback of Client::get_llm_models in src/client/mod.rs.    *)
(*                                                                         *)
(* A string is a sequence of one-character strings, so that the regular   *)
(* expressions and the prefix/suffix tests of the code are computed       *)
(* character by character.                                                 *)
(***************************************************************************)
EXTENDS Integers, Sequences, FiniteSets, TLC

(***************************************************************************)
(* Characters                                                              *)
(***************************************************************************)
Digits == {"0","1","2","3","4","5","6","7","8","9"}

UpperToLower ==
  [c \in {"A","B","C","D","E","F","G","H","I","J","K","L","M","N","O","P","Q",
          "R","S","T","U","V","W","X","Y","Z"} |->
     CASE c = "A" -> "a" [] c = "B" -> "b" [] c = "C" -> "c" [] c = "D" -> "d"
       [] c = "E" -> "e" [] c = "F" -> "f" [] c = "G" -> "g" [] c = "H" -> "h"
       [] c = "I" -> "i" [] c = "J" -> "j" [] c = "K" -> "k" [] c = "L" -> "l"
       [] c = "M" -> "m" [] c = "N" -> "n" [] c = "O" -> "o" [] c = "P" -> "p"
       [] c = "Q" -> "q" [] c = "R" -> "r" [] c = "S" -> "s" [] c = "T" -> "t"
       [] c = "U" -> "u" [] c = "V" -> "v" [] c = "W" -> "w" [] c = "X" -> "x"
       [] c = "Y" -> "y" [] c = "Z" -> "z"]

IsDigit(c) == c \in Digits

\* str::to_lowercase
to_lowercase(s) ==
  [i \in 1..Len(s) |-> IF s[i] \in DOMAIN UpperToLower THEN UpperToLower[s[i]] ELSE s[i]]

\* the tail of s that starts at position i (s[i-1..] in the code's 0-based terms)
Tail_from(s, i) == SubSeq(s, i, Len(s))

\* str::starts_with / str::ends_with
starts_with(s, p) == Len(s) >= Len(p) /\ SubSeq(s, 1, Len(p)) = p
ends_with(s, p) == Len(s) >= Len(p) /\ SubSeq(s, Len(s) - Len(p) + 1, Len(s)) = p

\* str::strip_suffix for a suffix the string is known to end with
drop_suffix(s, p) == SubSeq(s, 1, Len(s) - Len(p))

AllDigits(s) == \A i \in 1..Len(s) : IsDigit(s[i])

(***************************************************************************)
(* The regular expressions (matcher.rs 9-24)                               *)
(***************************************************************************)
\* -\d{8}$ matched against the whole of t
RE_DATE(t) == Len(t) = 9 /\ t[1] = "-" /\ AllDigits(Tail_from(t, 2))

\* -\d{4}-\d{2}-\d{2}$ matched against the whole of t
RE_DATE_DASHED(t) ==
  /\ Len(t) = 11
  /\ t[1] = "-" /\ AllDigits(SubSeq(t, 2, 5))
  /\ t[6] = "-" /\ AllDigits(SubSeq(t, 7, 8))
  /\ t[9] = "-" /\ AllDigits(SubSeq(t, 10, 11))

\* -v\d+(\.\d+)*$ matched against the whole of t
RE_VERSION(t) ==
  /\ Len(t) >= 3
  /\ t[1] = "-" /\ t[2] = "v"
  /\ IsDigit(t[3]) /\ IsDigit(t[Len(t)])
  /\ \A i \in 3..Len(t) : IsDigit(t[i]) \/ t[i] = "."
  /\ \A i \in 3..(Len(t) - 1) : ~(t[i] = "." /\ t[i + 1] = ".")

\* (\d)\.(\d) matched at position i of s
RE_VERSION_SEPARATOR(s, i) ==
  i + 2 <= Len(s) /\ IsDigit(s[i]) /\ s[i + 1] = "." /\ IsDigit(s[i + 2])

\* -(\d)(\d)- matched at position i of s
RE_COMPRESSED_VERSION_MID(s, i) ==
  i + 3 <= Len(s) /\ s[i] = "-" /\ IsDigit(s[i + 1]) /\ IsDigit(s[i + 2]) /\ s[i + 3] = "-"

\* -(\d)(\d)$ matched against the whole of t
RE_COMPRESSED_VERSION_END(t) ==
  Len(t) = 3 /\ t[1] = "-" /\ IsDigit(t[2]) /\ IsDigit(t[3])

\* Regex::is_match for the patterns anchored at the end, on a tail t of the string
is_match(re, t) ==
  CASE re = "RE_DATE" -> RE_DATE(t)
    [] re = "RE_DATE_DASHED" -> RE_DATE_DASHED(t)
    [] re = "RE_VERSION" -> RE_VERSION(t)
    [] re = "RE_COMPRESSED_VERSION_END" -> RE_COMPRESSED_VERSION_END(t)

\* Regex::replace(s, "") for a pattern anchored at the end of the string:
\* the leftmost position whose tail matches is cut off
replace_tail(s, re) ==
  LET P == {i \in 1..Len(s) : is_match(re, Tail_from(s, i))}
  IN IF P = {} THEN s
     ELSE SubSeq(s, 1, (CHOOSE i \in P : \A j \in P : i <= j) - 1)

(***************************************************************************)
(* The normalizers (matcher.rs 68-212)                                     *)
(***************************************************************************)
s_meta == <<"m","e","t","a">>
s_meta_llama == <<"m","e","t","a","-","l","l","a","m","a">>
s_x_ai == <<"x","-","a","i">>
s_x_dot_ai == <<"x",".","a","i">>
s_llama == <<"l","l","a","m","a">>
s_xai == <<"x","a","i">>

PROVIDER_MAPPING ==
  [k \in {s_meta, s_meta_llama, s_x_ai, s_x_dot_ai} |->
     IF k \in {s_meta, s_meta_llama} THEN s_llama ELSE s_xai]

\* normalize_provider looking the slug up as it is spelled
normalize_provider_case_sensitive(slug) ==
  LET lower == to_lowercase(slug)
  IN IF slug \in DOMAIN PROVIDER_MAPPING THEN PROVIDER_MAPPING[slug] ELSE lower

normalize_provider(slug) ==
  LET lower == to_lowercase(slug)
  IN IF lower \in DOMAIN PROVIDER_MAPPING THEN PROVIDER_MAPPING[lower] ELSE lower

\* replace_all_separator with the pattern \. in place of (\d)\.(\d): every
\* dot becomes a dash
RECURSIVE replace_all_dots(_, _)
replace_all_dots(s, i) ==
  IF i > Len(s) THEN <<>>
  ELSE IF s[i] = "."
       THEN <<"-">> \o replace_all_dots(s, i + 1)
       ELSE <<s[i]>> \o replace_all_dots(s, i + 1)

\* Regex::replace_all(slug, "$1-$2"): the matches are found left to right and
\* do not overlap, the search resumes after the end of the previous match
RECURSIVE replace_all_separator(_, _)
replace_all_separator(s, i) ==
  IF i > Len(s) THEN <<>>
  ELSE IF RE_VERSION_SEPARATOR(s, i)
       THEN <<s[i], "-", s[i + 2]>> \o replace_all_separator(s, i + 3)
       ELSE <<s[i]>> \o replace_all_separator(s, i + 1)

normalize_version_separators(slug) == replace_all_separator(slug, 1)

\* str::find('/'): the first position holding a slash, 0 when there is none
find_slash(s) ==
  LET P == {i \in 1..Len(s) : s[i] = "/"}
  IN IF P = {} THEN 0 ELSE CHOOSE i \in P : \A j \in P : i <= j

\* a panic of the thread, in the place of the value the call would return
Panic == <<"panic">>

\* &s[begin..]: slicing panics when begin lies past the end of the string
slice_from(s, begin) == IF begin > Len(s) + 1 THEN Panic ELSE Tail_from(s, begin)

\* strip_provider_prefix slicing one position further than the slash
strip_provider_prefix_off_by_one(slug) ==
  LET pos == find_slash(slug)
  IN IF pos # 0 THEN slice_from(slug, pos + 2) ELSE slug

\* strip_provider_prefix slicing at the slash instead of after it
strip_provider_prefix_slash_kept(slug) ==
  LET pos == find_slash(slug)
  IN IF pos # 0 THEN slice_from(slug, pos) ELSE slug

strip_provider_prefix(slug) ==
  LET pos == find_slash(slug)
  IN IF pos # 0 THEN slice_from(slug, pos + 1) ELSE slug

\* an absent Option
Absent == <<"None">>
Some(v) == <<"Some", v>>
is_some(o) == o[1] = "Some"
unwrap(o) == o[2]

s_non_reasoning == <<"-","n","o","n","-","r","e","a","s","o","n","i","n","g">>
s_reasoning == <<"-","r","e","a","s","o","n","i","n","g">>

\* strip_reasoning_suffix testing the shorter suffix first
strip_reasoning_suffix_short_first(slug) ==
  IF ends_with(slug, s_reasoning) THEN Some(drop_suffix(slug, s_reasoning))
  ELSE IF ends_with(slug, s_non_reasoning) THEN Some(drop_suffix(slug, s_non_reasoning))
  ELSE Absent

\* strip_reasoning_suffix taking the effort suffix -low for a reasoning suffix
strip_reasoning_suffix_or_low(slug) ==
  IF ends_with(slug, s_non_reasoning) THEN Some(drop_suffix(slug, s_non_reasoning))
  ELSE IF ends_with(slug, s_reasoning) THEN Some(drop_suffix(slug, s_reasoning))
  ELSE IF ends_with(slug, <<"-","l","o","w">>) THEN Some(drop_suffix(slug, <<"-","l","o","w">>))
  ELSE Absent

strip_reasoning_suffix(slug) ==
  IF ends_with(slug, s_non_reasoning) THEN Some(drop_suffix(slug, s_non_reasoning))
  ELSE IF ends_with(slug, s_reasoning) THEN Some(drop_suffix(slug, s_reasoning))
  ELSE Absent

\* Regex::replace_all(slug, "-$1-$2-") for RE_COMPRESSED_VERSION_MID
RECURSIVE replace_all_mid(_, _)
replace_all_mid(s, i) ==
  IF i > Len(s) THEN <<>>
  ELSE IF RE_COMPRESSED_VERSION_MID(s, i)
       THEN <<"-", s[i + 1], "-", s[i + 2], "-">> \o replace_all_mid(s, i + 4)
       ELSE <<s[i]>> \o replace_all_mid(s, i + 1)

\* Regex::replace_all(s, "-$1-$2") for RE_COMPRESSED_VERSION_END
replace_all_end(s) ==
  IF Len(s) >= 3 /\ RE_COMPRESSED_VERSION_END(Tail_from(s, Len(s) - 2))
  THEN SubSeq(s, 1, Len(s) - 3) \o <<"-", s[Len(s) - 1], "-", s[Len(s)]>>
  ELSE s

expand_compressed_version(slug) == replace_all_end(replace_all_mid(slug, 1))

s_gemma == <<"g","e","m","m","a","-">>
s_it == <<"-","i","t">>

\* try_add_it_suffix without the test of the family prefix
try_add_it_suffix_any_family(slug) ==
  IF ~ends_with(slug, s_it)
  THEN Some(slug \o s_it)
  ELSE Absent

try_add_it_suffix(slug) ==
  IF starts_with(slug, s_gemma) /\ ~ends_with(slug, s_it)
  THEN Some(slug \o s_it)
  ELSE Absent

s_google == <<"g","o","o","g","l","e">>
s_openai == <<"o","p","e","n","a","i">>
s_anthropic == <<"a","n","t","h","r","o","p","i","c">>
s_low == <<"-","l","o","w">>
s_medium == <<"-","m","e","d","i","u","m">>
s_high == <<"-","h","i","g","h">>
s_minimal == <<"-","m","i","n","i","m","a","l">>

EffortProviders == {s_google, s_openai, s_anthropic}
EffortSuffixes == <<s_low, s_medium, s_high, s_minimal>>

\* the for loop over the four suffixes: the first one the slug ends with
RECURSIVE strip_first_suffix(_, _, _)
strip_first_suffix(slug, sufs, k) ==
  IF k > Len(sufs) THEN Absent
  ELSE IF ends_with(slug, sufs[k]) THEN Some(drop_suffix(slug, sufs[k]))
  ELSE strip_first_suffix(slug, sufs, k + 1)

\* strip_effort_suffix_for_provider without the allow-list test
strip_effort_suffix_any_provider(slug, creator) ==
  strip_first_suffix(slug, EffortSuffixes, 1)

\* strip_effort_suffix_for_provider comparing the namespace as it is spelled
strip_effort_suffix_case_sensitive(slug, creator) ==
  IF ~is_some(creator) THEN Absent
  ELSE IF unwrap(creator) \notin EffortProviders THEN Absent
  ELSE strip_first_suffix(slug, EffortSuffixes, 1)

\* creator is an Option: Absent or Some(namespace)
strip_effort_suffix_for_provider(slug, creator) ==
  IF ~is_some(creator) THEN Absent
  ELSE IF to_lowercase(unwrap(creator)) \notin EffortProviders THEN Absent
  ELSE strip_first_suffix(slug, EffortSuffixes, 1)

\* strip_version_suffix without the second pattern
strip_version_suffix_no_dashed_date(slug) ==
  LET p1 == replace_tail(slug, "RE_DATE")
  IN replace_tail(p1, "RE_VERSION")

strip_version_suffix(slug) ==
  LET p1 == replace_tail(slug, "RE_DATE")
      p2 == replace_tail(p1, "RE_DATE_DASHED")
  IN replace_tail(p2, "RE_VERSION")

(***************************************************************************)
(* Pre-computed variants (matcher.rs 214-336)                              *)
(***************************************************************************)
\* Some(v) when the transform changed the slug, Absent otherwise
if_changed(v, slug) == IF v # slug THEN Some(v) ELSE Absent

\* Option::and_then over normalize_version_separators
and_then_normalized(o) ==
  IF is_some(o) THEN if_changed(normalize_version_separators(unwrap(o)), unwrap(o))
  ELSE Absent

\* NormalizedSlugs::new without the separator-normalized copy of the expanded slug
NormalizedSlugs_expanded_only(aa_slug, aa_creator_slug) ==
  LET stripped_reasoning == strip_reasoning_suffix(aa_slug)
      expanded_version == if_changed(expand_compressed_version(aa_slug), aa_slug)
      stripped_effort == strip_effort_suffix_for_provider(aa_slug, aa_creator_slug)
  IN [stripped_version |-> if_changed(strip_version_suffix(aa_slug), aa_slug),
      normalized_separators |-> if_changed(normalize_version_separators(aa_slug), aa_slug),
      stripped_reasoning |-> stripped_reasoning,
      reasoning_normalized |-> and_then_normalized(stripped_reasoning),
      expanded_version |-> expanded_version,
      expanded_normalized |-> Absent,
      with_it_suffix |-> try_add_it_suffix(aa_slug),
      stripped_effort |-> stripped_effort,
      effort_normalized |-> and_then_normalized(stripped_effort)]

NormalizedSlugs(aa_slug, aa_creator_slug) ==
  LET stripped_reasoning == strip_reasoning_suffix(aa_slug)
      expanded_version == if_changed(expand_compressed_version(aa_slug), aa_slug)
      stripped_effort == strip_effort_suffix_for_provider(aa_slug, aa_creator_slug)
  IN [stripped_version |-> if_changed(strip_version_suffix(aa_slug), aa_slug),
      normalized_separators |-> if_changed(normalize_version_separators(aa_slug), aa_slug),
      stripped_reasoning |-> stripped_reasoning,
      reasoning_normalized |-> and_then_normalized(stripped_reasoning),
      expanded_version |-> expanded_version,
      expanded_normalized |-> and_then_normalized(expanded_version),
      with_it_suffix |-> try_add_it_suffix(aa_slug),
      stripped_effort |-> stripped_effort,
      effort_normalized |-> and_then_normalized(stripped_effort)]

\* ModelIdVariants::new keeping the version suffix of the model id
ModelIdVariants_suffix_kept(model_id) ==
  [original_lower |-> to_lowercase(model_id),
   stripped_version |-> model_id,
   normalized_separators |-> normalize_version_separators(model_id),
   stripped_prefix |-> strip_provider_prefix(model_id)]

ModelIdVariants(model_id) ==
  [original_lower |-> to_lowercase(model_id),
   stripped_version |-> strip_version_suffix(model_id),
   normalized_separators |-> normalize_version_separators(model_id),
   stripped_prefix |-> strip_provider_prefix(model_id)]

(***************************************************************************)
(* The match types and the result (matcher.rs 37-66)                       *)
(***************************************************************************)
MatchType == {"Exact", "Fuzzy", "NormalizedProvider", "NormalizedVersionSeparator",
              "StrippedProviderPrefix", "ReasoningVariant", "ExpandedVersion",
              "GemmaItSuffix", "EffortLevel"}

\* a candidate is one entry of one provider's models map: the provider's id
\* and the key of the model in that map
Candidate(provider_id, model_id) == [provider_id |-> provider_id, model_id |-> model_id]

\* MatchResult built from the lowercased copy of the model id that the scan compared
MatchResult_from_lowercased_id(cand, match_type) ==
  [provider_id |-> cand.provider_id, model_id |-> to_lowercase(cand.model_id),
   match_type |-> match_type]

MatchResult(cand, match_type) ==
  [provider_id |-> cand.provider_id, model_id |-> cand.model_id, match_type |-> match_type]

\* Option<MatchResult>::None
NoMatch == [provider_id |-> <<>>, model_id |-> <<>>, match_type |-> "None"]

(***************************************************************************)
(* The scan (matcher.rs 338-356).  iter is the order in which the two     *)
(* nested HashMap iterations visit the candidates in this call.            *)
(***************************************************************************)
first_index(I) == CHOOSE i \in I : \A j \in I : i <= j

\* lower_of reading the original id where the closure reads the id with its
\* separators normalized
lower_of_separators_kept(variants, field) ==
  CASE field = "original_lower" -> variants.original_lower
    [] field = "stripped_version" -> to_lowercase(variants.stripped_version)
    [] field = "normalized_separators" -> variants.original_lower
    [] field = "stripped_prefix" -> to_lowercase(variants.stripped_prefix)

\* the lowercased variant that the closure of a scan reads
lower_of(variants, field) ==
  CASE field = "original_lower" -> variants.original_lower
    [] field = "stripped_version" -> to_lowercase(variants.stripped_version)
    [] field = "normalized_separators" -> to_lowercase(variants.normalized_separators)
    [] field = "stripped_prefix" -> to_lowercase(variants.stripped_prefix)

\* find_model_by returning from the loop after the first model it visits
find_model_by_first_only(iter, field, v) ==
  IF Len(iter) > 0 /\ lower_of(ModelIdVariants(iter[1].model_id), field) = v
  THEN Some(iter[1]) ELSE Absent

\* find_model_by with the closure |_, variants| variants.field (lowercased) == v
find_model_by(iter, field, v) ==
  LET hits == {i \in 1..Len(iter) : lower_of(ModelIdVariants(iter[i].model_id), field) = v}
  IN IF hits = {} THEN Absent ELSE Some(iter[first_index(hits)])

\* providers.get(&aa_provider) followed by the loop over that provider's models
find_in_provider(iter, aa_provider, aa_slug) ==
  LET hits == {i \in 1..Len(iter) : /\ iter[i].provider_id = aa_provider
                                    /\ to_lowercase(iter[i].model_id) = aa_slug}
  IN IF hits = {} THEN Absent ELSE Some(iter[first_index(hits)])

\* find_if_some with a prefix test in place of the equality
find_if_some_prefix(iter, option, field) ==
  LET hits == {i \in 1..Len(iter) :
                 /\ is_some(option)
                 /\ starts_with(lower_of(ModelIdVariants(iter[i].model_id), field),
                                unwrap(option))}
  IN IF hits = {} THEN Absent ELSE Some(iter[first_index(hits)])

\* if let Some(ref v) = option { find_model_by(.., |_, variants| variants.field == v) }
find_if_some(iter, option, field) ==
  IF is_some(option) THEN find_model_by(iter, field, unwrap(option)) ELSE Absent

Step(found, match_type) == [found |-> found, match_type |-> match_type]

(***************************************************************************)
(* find_match (matcher.rs 359-602)                                         *)
(***************************************************************************)
\* the sub-steps 1, 2, 3a, 3b, 4a, 4b, 5, 6a-6d, 7a-7c, 8, 9a-9c in the order
\* of the code, numbered 1..18: what sub-step k scans for and the tag it gives
find_match_step(k, aa_provider, aa_slug, provider_was_normalized, slugs, iter) ==
  LET whole == Some(aa_slug)
      reasoning == slugs.stripped_reasoning
      expanded == slugs.expanded_version
      effort == slugs.stripped_effort
      inside(outer, inner) == IF is_some(outer) THEN inner ELSE Absent
  IN CASE k = 1 ->
            Step(find_in_provider(iter, aa_provider, aa_slug),
                 IF provider_was_normalized THEN "NormalizedProvider" ELSE "Exact")
       [] k = 2 ->
            Step(find_if_some(iter, whole, "original_lower"), "Exact")
       [] k = 3 ->
            Step(find_if_some(iter, slugs.stripped_version, "stripped_version"), "Fuzzy")
       [] k = 4 ->
            Step(find_if_some(iter, whole, "stripped_version"), "Fuzzy")
       [] k = 5 ->
            Step(find_if_some(iter, slugs.normalized_separators, "original_lower"),
                 "NormalizedVersionSeparator")
       [] k = 6 ->
            Step(find_if_some(iter, whole, "normalized_separators"),
                 "NormalizedVersionSeparator")
       [] k = 7 ->
            Step(find_if_some(iter, whole, "stripped_prefix"), "StrippedProviderPrefix")
       [] k = 8 ->
            Step(find_if_some(iter, reasoning, "original_lower"), "ReasoningVariant")
       [] k = 9 ->
            Step(inside(reasoning,
                        find_if_some(iter, slugs.reasoning_normalized, "original_lower")),
                 "ReasoningVariant")
       [] k = 10 ->
            Step(find_if_some(iter, reasoning, "normalized_separators"),
                 "ReasoningVariant")
       [] k = 11 ->
            Step(find_if_some(iter, reasoning, "stripped_prefix"), "ReasoningVariant")
       [] k = 12 ->
            Step(find_if_some(iter, expanded, "original_lower"), "ExpandedVersion")
       [] k = 13 ->
            Step(inside(expanded,
                        find_if_some(iter, slugs.expanded_normalized, "original_lower")),
                 "ExpandedVersion")
       [] k = 14 ->
            Step(find_if_some(iter, expanded, "normalized_separators"),
                 "ExpandedVersion")
       [] k = 15 ->
            Step(find_if_some(iter, slugs.with_it_suffix, "original_lower"), "GemmaItSuffix")
       [] k = 16 ->
            Step(find_if_some(iter, effort, "original_lower"), "EffortLevel")
       [] k = 17 ->
            Step(inside(effort,
                        find_if_some(iter, slugs.effort_normalized, "original_lower")),
                 "EffortLevel")
       [] k = 18 ->
            Step(find_if_some(iter, effort, "normalized_separators"), "EffortLevel")

\* the number of sub-steps of find_match
LastStep == 18

\* find_match_from without the early return: a later hit replaces an earlier one
RECURSIVE find_match_from_last_wins(_, _, _, _, _, _)
find_match_from_last_wins(k, aa_provider, aa_slug, provider_was_normalized, slugs, iter) ==
  IF k > LastStep THEN NoMatch
  ELSE LET step == find_match_step(k, aa_provider, aa_slug, provider_was_normalized,
                                   slugs, iter)
           later == find_match_from_last_wins(k + 1, aa_provider, aa_slug,
                                              provider_was_normalized, slugs, iter)
       IN IF later # NoMatch THEN later
          ELSE IF is_some(step.found)
          THEN MatchResult(unwrap(step.found), step.match_type)
          ELSE NoMatch

\* find_match_from with the candidate-side scans 3b and 4b nested in the
\* if let of the slug-side variant: they are skipped when the variant is absent
RECURSIVE find_match_from_nested(_, _, _, _, _, _)
find_match_from_nested(k, aa_provider, aa_slug, provider_was_normalized, slugs, iter) ==
  IF k > LastStep THEN NoMatch
  ELSE LET step == find_match_step(k, aa_provider, aa_slug, provider_was_normalized,
                                   slugs, iter)
           skip == \/ k = 3 /\ ~is_some(slugs.stripped_version)
                   \/ k = 5 /\ ~is_some(slugs.normalized_separators)
       IN IF is_some(step.found)
          THEN MatchResult(unwrap(step.found), step.match_type)
          ELSE find_match_from_nested(IF skip THEN k + 2 ELSE k + 1, aa_provider, aa_slug,
                                      provider_was_normalized, slugs, iter)

\* the sub-steps are tried in order; the first scan that finds a candidate
\* returns, and the end of the function returns None
RECURSIVE find_match_from(_, _, _, _, _, _)
find_match_from(k, aa_provider, aa_slug, provider_was_normalized, slugs, iter) ==
  IF k > LastStep THEN NoMatch
  ELSE LET step == find_match_step(k, aa_provider, aa_slug, provider_was_normalized,
                                   slugs, iter)
       IN IF is_some(step.found)
          THEN MatchResult(unwrap(step.found), step.match_type)
          ELSE find_match_from(k + 1, aa_provider, aa_slug, provider_was_normalized,
                               slugs, iter)

\* find_match without strategies 1 and 2
find_match_skip_exact(aa_creator_slug, aa_model_slug, iter) ==
  LET aa_provider == IF is_some(aa_creator_slug)
                     THEN normalize_provider(unwrap(aa_creator_slug)) ELSE <<>>
      aa_slug == to_lowercase(aa_model_slug)
      provider_was_normalized ==
        is_some(aa_creator_slug) /\ to_lowercase(unwrap(aa_creator_slug)) # aa_provider
      slugs == NormalizedSlugs(aa_slug, aa_creator_slug)
  IN find_match_from(3, aa_provider, aa_slug, provider_was_normalized, slugs, iter)

\* find_match without strategy 2: the exact comparison is made in the
\* record's own namespace only
find_match_own_namespace_only(aa_creator_slug, aa_model_slug, iter) ==
  LET aa_provider == IF is_some(aa_creator_slug)
                     THEN normalize_provider(unwrap(aa_creator_slug)) ELSE <<>>
      aa_slug == to_lowercase(aa_model_slug)
      provider_was_normalized ==
        is_some(aa_creator_slug) /\ to_lowercase(unwrap(aa_creator_slug)) # aa_provider
      slugs == NormalizedSlugs(aa_slug, aa_creator_slug)
      step == find_match_step(1, aa_provider, aa_slug, provider_was_normalized, slugs, iter)
  IN IF is_some(step.found)
     THEN MatchResult(unwrap(step.found), step.match_type)
     ELSE find_match_from(3, aa_provider, aa_slug, provider_was_normalized, slugs, iter)

\* find_match without the lowercasing of the Provider-A slug
find_match_case_sensitive(aa_creator_slug, aa_model_slug, iter) ==
  LET aa_provider == IF is_some(aa_creator_slug)
                     THEN normalize_provider(unwrap(aa_creator_slug)) ELSE <<>>
      aa_slug == aa_model_slug
      provider_was_normalized ==
        is_some(aa_creator_slug) /\ to_lowercase(unwrap(aa_creator_slug)) # aa_provider
      slugs == NormalizedSlugs(aa_slug, aa_creator_slug)
  IN find_match_from(1, aa_provider, aa_slug, provider_was_normalized, slugs, iter)

find_match(aa_creator_slug, aa_model_slug, iter) ==
  LET aa_provider == IF is_some(aa_creator_slug)
                     THEN normalize_provider(unwrap(aa_creator_slug)) ELSE <<>>
      aa_slug == to_lowercase(aa_model_slug)
      provider_was_normalized ==
        is_some(aa_creator_slug) /\ to_lowercase(unwrap(aa_creator_slug)) # aa_provider
      slugs == NormalizedSlugs(aa_slug, aa_creator_slug)
  IN find_match_from(1, aa_provider, aa_slug, provider_was_normalized, slugs, iter)

(***************************************************************************)
(* Inputs.  The grid combines short slugs and model ids that differ by    *)
(* exactly the conventions the strategies reverse; the scenarios are the  *)
(* cases of the unit tests of matcher.rs (667-1164).                       *)
(***************************************************************************)
s_m == <<"m">>
s_M == <<"M">>
s_m_v2 == <<"m","-","v","2">>
s_m_1dot5 == <<"m","-","1",".","5">>
s_m_1_5 == <<"m","-","1","-","5">>
s_m_15 == <<"m","-","1","5">>
s_m_reasoning == <<"m","-","r","e","a","s","o","n","i","n","g">>
s_m_1dot5_non_reasoning == <<"m","-","1",".","5","-","n","o","n","-","r","e","a","s","o","n","i","n","g">>
s_m_1_5_reasoning == <<"m","-","1","-","5","-","r","e","a","s","o","n","i","n","g">>
s_m_low == <<"m","-","l","o","w">>
s_m_1dot5_low == <<"m","-","1",".","5","-","l","o","w">>
s_m_1_5_low == <<"m","-","1","-","5","-","l","o","w">>
s_gemma_m == <<"g","e","m","m","a","-","m">>
s_m_15_1dot5 == <<"m","-","1","5","-","1",".","5">>
s_m_V2 == <<"m","-","V","2">>
s_m_v3 == <<"m","-","v","3">>
s_Meta == <<"M","e","t","a">>
s_Google == <<"G","o","o","g","l","e">>
s_Anthropic == <<"A","n","t","h","r","o","p","i","c">>
s_X_AI == <<"X","-","A","I">>
s_p_slash == <<"p","/">>
s_p_slash_m == <<"p","/","m">>
s_gemma_m_it == <<"g","e","m","m","a","-","m","-","i","t">>
s_m_1_5_1_5 == <<"m","-","1","-","5","-","1","-","5">>
s_OpenAI == <<"O","p","e","n","A","I">>
s_mistral == <<"m","i","s","t","r","a","l">>
s_gpt_4o == <<"g","p","t","-","4","o">>
s_llama_3_70b == <<"l","l","a","m","a","-","3","-","7","0","b">>
s_claude_3_5_sonnet_20241022 == <<"c","l","a","u","d","e","-","3","-","5","-","s","o","n","n","e","t","-","2","0","2","4","1","0","2","2">>
s_claude_3_5_sonnet == <<"c","l","a","u","d","e","-","3","-","5","-","s","o","n","n","e","t">>
s_unknown == <<"u","n","k","n","o","w","n">>
s_unknown_model == <<"u","n","k","n","o","w","n","-","m","o","d","e","l">>
s_gemini_2dot5_flash == <<"g","e","m","i","n","i","-","2",".","5","-","f","l","a","s","h">>
s_gemini_2_5_flash == <<"g","e","m","i","n","i","-","2","-","5","-","f","l","a","s","h">>
s_gpt_4_1_mini == <<"g","p","t","-","4","-","1","-","m","i","n","i">>
s_gpt_4dot1_mini == <<"g","p","t","-","4",".","1","-","m","i","n","i">>
s_mistral_large_3 == <<"m","i","s","t","r","a","l","-","l","a","r","g","e","-","3">>
s_mistral_slash_mistral_large_3 == <<"m","i","s","t","r","a","l","/","m","i","s","t","r","a","l","-","l","a","r","g","e","-","3">>
s_gemini_2_5_flash_reasoning == <<"g","e","m","i","n","i","-","2","-","5","-","f","l","a","s","h","-","r","e","a","s","o","n","i","n","g">>
s_deepseek == <<"d","e","e","p","s","e","e","k">>
s_deepseek_v3_2_non_reasoning == <<"d","e","e","p","s","e","e","k","-","v","3","-","2","-","n","o","n","-","r","e","a","s","o","n","i","n","g">>
s_deepseek_v3dot2 == <<"d","e","e","p","s","e","e","k","-","v","3",".","2">>
s_claude_35_sonnet == <<"c","l","a","u","d","e","-","3","5","-","s","o","n","n","e","t">>
s_gemma_3_12b == <<"g","e","m","m","a","-","3","-","1","2","b">>
s_gemma_3_12b_it == <<"g","e","m","m","a","-","3","-","1","2","b","-","i","t">>
s_gemini_3_pro_low == <<"g","e","m","i","n","i","-","3","-","p","r","o","-","l","o","w">>
s_gemini_3_pro == <<"g","e","m","i","n","i","-","3","-","p","r","o">>
s_gpt_5_medium == <<"g","p","t","-","5","-","m","e","d","i","u","m">>
s_gpt_5 == <<"g","p","t","-","5">>
s_mistral_medium == <<"m","i","s","t","r","a","l","-","m","e","d","i","u","m">>
s_GPT_4o == <<"G","P","T","-","4","o">>
s_Claude_3_5_Sonnet_20241022 == <<"C","l","a","u","d","e","-","3","-","5","-","S","o","n","n","e","t","-","2","0","2","4","1","0","2","2">>
s_gpt_4o_2024_08_06 == <<"g","p","t","-","4","o","-","2","0","2","4","-","0","8","-","0","6">>

\* Provider-A slugs of the grid
ModelSlugs ==
  {s_m, s_M, s_m_v2, s_m_1dot5, s_m_1_5,
   s_m_15, s_m_reasoning, s_m_1dot5_non_reasoning, s_m_1_5_reasoning, s_m_low,
   s_m_1dot5_low, s_m_1_5_low, s_gemma_m, s_m_15_1dot5}

\* Provider-B model ids of the grid
ModelIds ==
  {s_m, s_M, s_m_v2, s_m_V2, s_m_v3,
   s_m_1dot5, s_m_1_5, s_p_slash_m, s_gemma_m_it, s_m_1_5_1_5}

\* Provider-B namespaces of the grid
ProviderIds == {s_openai, s_llama}

\* the model ids the second namespace of the grid can hold
LlamaModelIds == {s_m, s_M, s_m_v2}

\* Provider-A namespaces of the grid: absent, allow-listed, in another letter
\* case, aliased (meta -> llama), and neither aliased nor allow-listed
CreatorSlugs == {Absent, Some(s_openai), Some(s_OpenAI), Some(s_meta), Some(s_mistral)}

\* the largest number of models of a grid snapshot
MaxModels == 2

GridCandidates ==
  {Candidate(s_openai, m) : m \in ModelIds} \cup {Candidate(s_llama, m) : m \in LlamaModelIds}

\* the snapshots of the grid: every set of at most MaxModels candidates
RECURSIVE SubsetsUpTo(_, _)
SubsetsUpTo(S, n) ==
  IF n = 0 THEN {{}}
  ELSE LET smaller == SubsetsUpTo(S, n - 1)
       IN smaller \cup {T \cup {x} : T \in smaller, x \in S}

Snapshots == SubsetsUpTo(GridCandidates, MaxModels)

Input(creator, slug, snapshot) ==
  [arg_creator_slug |-> creator, arg_model_slug |-> slug, providers |-> snapshot]

GridInputs == {Input(c, s, P) : c \in CreatorSlugs, s \in ModelSlugs, P \in Snapshots}

Scenarios ==
  {Input(Some(s_openai), s_gpt_4o, {Candidate(s_openai, s_gpt_4o)}),
   Input(Some(s_meta), s_llama_3_70b, {Candidate(s_llama, s_llama_3_70b)}),
   Input(Some(s_anthropic), s_claude_3_5_sonnet_20241022, {Candidate(s_anthropic, s_claude_3_5_sonnet_20241022)}),
   Input(Some(s_anthropic), s_claude_3_5_sonnet, {Candidate(s_anthropic, s_claude_3_5_sonnet_20241022)}),
   Input(Some(s_unknown), s_unknown_model, {Candidate(s_openai, s_gpt_4o)}),
   Input(Some(s_google), s_gemini_2dot5_flash, {Candidate(s_google, s_gemini_2_5_flash)}),
   Input(Some(s_openai), s_gpt_4_1_mini, {Candidate(s_openai, s_gpt_4dot1_mini)}),
   Input(Some(s_mistral), s_mistral_large_3, {Candidate(s_mistral, s_mistral_slash_mistral_large_3)}),
   Input(Some(s_google), s_gemini_2_5_flash_reasoning, {Candidate(s_google, s_gemini_2dot5_flash)}),
   Input(Some(s_deepseek), s_deepseek_v3_2_non_reasoning, {Candidate(s_deepseek, s_deepseek_v3dot2)}),
   Input(Some(s_anthropic), s_claude_35_sonnet, {Candidate(s_anthropic, s_claude_3_5_sonnet)}),
   Input(Some(s_google), s_gemma_3_12b, {Candidate(s_google, s_gemma_3_12b_it)}),
   Input(Some(s_google), s_gemini_3_pro_low, {Candidate(s_google, s_gemini_3_pro)}),
   Input(Some(s_openai), s_gpt_5_medium, {Candidate(s_openai, s_gpt_5)}),
   Input(Some(s_mistral), s_mistral_medium, {Candidate(s_mistral, s_mistral)}),
   Input(Some(s_openai), s_gpt_4o, {Candidate(s_openai, s_GPT_4o)}),
   Input(Some(s_openai), s_GPT_4o, {Candidate(s_openai, s_gpt_4o)}),
   Input(Some(s_anthropic), s_claude_3_5_sonnet, {Candidate(s_anthropic, s_Claude_3_5_Sonnet_20241022)}),
   Input(Some(s_openai), s_gpt_4o, {Candidate(s_openai, s_gpt_4o), Candidate(s_openai, s_gpt_4o_2024_08_06)})}

(***************************************************************************)
(* State                                                                   *)
(***************************************************************************)
VARIABLES
  pc,               \* where the current call stands
  arg_creator_slug, \* find_match: the record's namespace, an Option
  arg_model_slug,   \* find_match: the record's slug
  providers,        \* find_match: the Provider-B snapshot, a set of candidates
  map_order,        \* the order in which this call's map iterations visit them
  result,           \* the Option<MatchResult> the call returned
  transform,        \* the normalizer under test
  input,            \* its argument
  once,             \* the normalizer applied to input
  twice,            \* the normalizer applied to once
  aa_remote,        \* the records Artificial Analysis serves
  md_remote,        \* the snapshot models.dev serves
  aa_file,          \* whether aa_llms.parquet exists
  md_file,          \* whether models_dev.parquet exists
  md_meta,          \* models_dev_meta.txt: the age in hours of its timestamp, an Option
  md_json,          \* models_dev_cache.json: the snapshot it holds, an Option
  merged_file,      \* llms.parquet: the rows it holds, an Option
  last              \* what the last call of get_llm_models did and returned

match_vars == <<arg_model_slug, providers, map_order, result>>
norm_vars == <<transform, input, once, twice>>
client_vars == <<aa_remote, md_remote, aa_file, md_file, md_meta, md_json, merged_file, last>>

vars == <<pc, arg_creator_slug, match_vars, norm_vars, client_vars>>

\* the variables of find_match, idle while another component runs
NoMatchCall ==
  /\ arg_model_slug = <<>>
  /\ providers = {}
  /\ map_order = <<>>
  /\ result = NoMatch

\* the variables of the normalizer calls, idle while another component runs
NoTransform ==
  /\ transform = "none"
  /\ input = <<>>
  /\ once = <<>>
  /\ twice = <<>>

\* Result<T, AppError>
Ok(v) == <<"Ok", v>>
Err == <<"Err">>
is_ok(r) == r[1] = "Ok"

\* get_llm_models has not been called
NoCall ==
  [called |-> FALSE, refresh |-> FALSE, quick |-> FALSE, aa |-> Err, md |-> Err,
   fetched |-> FALSE, md_online |-> FALSE, returned |-> Err]

\* the variables of the client, idle while another component runs
NoClient ==
  /\ aa_remote = <<>>
  /\ md_remote = {}
  /\ aa_file = FALSE
  /\ md_file = FALSE
  /\ md_meta = Absent
  /\ md_json = Absent
  /\ merged_file = Absent
  /\ last = NoCall

\* The orders in which `for provider in providers.values()` with the nested
\* `for (model_id, model) in &provider.models` can visit a snapshot: the maps
\* are HashMaps, so any order of the providers and, within each provider, any
\* order of its models.
IterationOrders(snapshot) ==
  LET n == Cardinality(snapshot)
  IN {o \in [1..n -> snapshot] :
        /\ \A i, j \in 1..n : i # j => o[i] # o[j]
        /\ \A i, j, k \in 1..n :
             (i < j /\ j < k /\ o[i].provider_id = o[k].provider_id)
               => o[j].provider_id = o[i].provider_id}

(***************************************************************************)
(* find_match called on one Provider-A record                              *)
(***************************************************************************)
\* the degenerate arguments: an empty slug, an empty namespace, an empty
\* model id, a model id ending in a slash, an empty snapshot
EdgeInputs ==
  {Input(c, s, P) : c \in {Absent, Some(<<>>)},
                    s \in {<<>>, s_m},
                    P \in {{}, {Candidate(<<>>, <<>>)}, {Candidate(s_openai, s_p_slash)}}}

\* every spelling of the alias table, in two letter cases, and the targets of
\* the table, against one model in each of three namespaces
AliasInputs ==
  {Input(Some(c), s_m, {Candidate(p, s_M)}) :
     c \in {s_meta, s_Meta, s_meta_llama, s_x_ai, s_X_AI, s_x_dot_ai, s_llama, s_xai, s_OpenAI},
     p \in {s_llama, s_xai, s_openai}}

\* each effort suffix under each namespace of the allow-list, in two letter
\* cases, and under a namespace outside it
EffortInputs ==
  {Input(Some(c), s_m \o x, P) :
     c \in {s_google, s_Google, s_openai, s_anthropic, s_Anthropic, s_mistral},
     x \in {s_low, s_medium, s_high, s_minimal},
     P \in {{Candidate(s_openai, s_m)}, {Candidate(s_openai, s_m_v2)}}}

\* model ids with one and with two namespace prefixes, against a slug without
\* and with a prefix
PrefixInputs ==
  {Input(c, s, {Candidate(s_openai, id)}) :
     c \in {Absent, Some(s_openai)},
     s \in {s_m, s_p_slash_m},
     id \in {s_p_slash_m, s_p_slash \o s_p_slash_m}}

s_Gemma_M == <<"G","e","m","m","a","-","M">>
s_Gemma_M_IT == <<"G","e","m","m","a","-","M","-","I","T">>

\* slugs in and outside the gemma family, with and without the -it suffix,
\* against model ids that end with -it
GemmaInputs ==
  {Input(c, s, {Candidate(s_google, id)}) :
     c \in {Absent, Some(s_google)},
     s \in {s_m, s_gemma_m, s_Gemma_M, s_gemma_m_it},
     id \in {s_m \o s_it, s_gemma_m_it, s_Gemma_M_IT, s_gemma_m_it \o s_it}}

InitMatch ==
  /\ pc = "call"
  /\ \E in \in GridInputs \cup Scenarios \cup EdgeInputs \cup AliasInputs \cup EffortInputs
               \cup PrefixInputs \cup GemmaInputs :
       /\ arg_creator_slug = in.arg_creator_slug
       /\ arg_model_slug = in.arg_model_slug
       /\ providers = in.providers
  /\ map_order = <<>>
  /\ result = NoMatch
  /\ NoTransform
  /\ NoClient

FindMatch ==
  /\ pc = "call"
  /\ \E o \in IterationOrders(providers) :
       /\ map_order' = o
       /\ result' = find_match(arg_creator_slug, arg_model_slug, o)
  /\ pc' = "done"
  /\ UNCHANGED <<arg_creator_slug, arg_model_slug, providers, norm_vars, client_vars>>

NextMatch == FindMatch

SpecMatch == InitMatch /\ [][NextMatch]_vars

(***************************************************************************)
(* The normalizers called on their own                                     *)
(***************************************************************************)
s_m_35 == <<"m","-","3","5">>
s__20241022 == <<"-","2","0","2","4","1","0","2","2">>
s__2024_08_06 == <<"-","2","0","2","4","-","0","8","-","0","6">>
s__v1 == <<"-","v","1">>
s__v1dot2dot3 == <<"-","v","1",".","2",".","3">>
s__V1 == <<"-","V","1">>
s__21 == <<"-","2","1">>
s_dot3 == <<".","3">>
s__slash_m == <<"/","m">>
s_model_v1dot2dot3 == <<"m","o","d","e","l","-","v","1",".","2",".","3">>
s_model_1dot2_foo_3dot4 == <<"m","o","d","e","l","-","1",".","2","-","f","o","o","-","3",".","4">>
s_claude_21 == <<"c","l","a","u","d","e","-","2","1">>
s_model_35_foo_21 == <<"m","o","d","e","l","-","3","5","-","f","o","o","-","2","1">>
s_gpt_4_turbo == <<"g","p","t","-","4","-","t","u","r","b","o">>
s_gemini_2_5_flash_low == <<"g","e","m","i","n","i","-","2","-","5","-","f","l","a","s","h","-","l","o","w">>
s_1dot2dot3 == <<"1",".","2",".","3">>
s_x_35_21_y == <<"x","-","3","5","-","2","1","-","y">>

Transforms == {"strip_version_suffix", "normalize_version_separators",
               "expand_compressed_version", "strip_provider_prefix",
               "strip_reasoning_suffix", "strip_effort_suffix_for_provider",
               "try_add_it_suffix", "normalize_provider"}

\* the longest string of the exhaustive part of the inputs
MaxLen == 4

\* the largest number of suffixes appended to a base
MaxSuffixes == 2

Alphabet == {"a", "1", "-", ".", "/", "v"}

\* every string over Alphabet of length at most n
RECURSIVE StringsUpTo(_)
StringsUpTo(n) ==
  IF n = 0 THEN {<<>>}
  ELSE LET shorter == StringsUpTo(n - 1)
       IN shorter \cup {Append(t, c) : t \in shorter, c \in Alphabet}

Bases == {s_m, s_gemma_m, s_m_1dot5, s_m_35}

Suffixes == {s__20241022, s__2024_08_06, s__v1, s__v1dot2dot3,
             s__V1, s_reasoning, s_non_reasoning, s_low,
             s_medium, s_it, s__21, s_dot3,
             s__slash_m}

\* a base followed by at most n suffixes
RECURSIVE Suffixed(_)
Suffixed(n) ==
  IF n = 0 THEN Bases
  ELSE LET fewer == Suffixed(n - 1)
       IN fewer \cup {t \o x : t \in fewer, x \in Suffixes}

\* the arguments of the unit tests of matcher.rs
TestStrings ==
  {s_claude_3_5_sonnet_20241022, s_gpt_4o_2024_08_06, s_model_v1dot2dot3, s_gpt_4o,
   s_gemini_2dot5_flash, s_gpt_4dot1_mini, s_model_1dot2_foo_3dot4, s_gemini_2_5_flash,
   s_mistral_slash_mistral_large_3, s_claude_35_sonnet, s_claude_21, s_model_35_foo_21,
   s_claude_3_5_sonnet, s_gpt_4_turbo, s_gemma_3_12b, s_gemma_3_12b_it,
   s_deepseek_v3_2_non_reasoning, s_gemini_2_5_flash_low, s_mistral_medium, s_1dot2dot3,
   s_x_35_21_y, s_Meta, s_meta_llama, s_x_ai,
   s_x_dot_ai, s_OpenAI}

Strings == StringsUpTo(MaxLen) \cup Suffixed(MaxSuffixes) \cup TestStrings

\* an Option-returning normalizer that is inapplicable leaves the slug as it is
unwrap_or(o, slug) == IF is_some(o) THEN unwrap(o) ELSE slug

\* the normalizer named t applied to slug for a record of namespace creator
apply(t, slug, creator) ==
  CASE t = "strip_version_suffix" -> strip_version_suffix(slug)
    [] t = "normalize_version_separators" -> normalize_version_separators(slug)
    [] t = "expand_compressed_version" -> expand_compressed_version(slug)
    [] t = "strip_provider_prefix" -> strip_provider_prefix(slug)
    [] t = "strip_reasoning_suffix" -> unwrap_or(strip_reasoning_suffix(slug), slug)
    [] t = "strip_effort_suffix_for_provider" ->
         unwrap_or(strip_effort_suffix_for_provider(slug, creator), slug)
    [] t = "try_add_it_suffix" -> unwrap_or(try_add_it_suffix(slug), slug)
    [] t = "normalize_provider" -> normalize_provider(slug)

InitNorm ==
  /\ pc = "norm"
  /\ transform \in Transforms
  /\ input \in Strings
  /\ arg_creator_slug \in
       IF transform = "strip_effort_suffix_for_provider"
       THEN {Absent, Some(s_openai), Some(s_mistral)} ELSE {Absent}
  /\ once = <<>>
  /\ twice = <<>>
  /\ NoMatchCall
  /\ NoClient

ApplyOnce ==
  /\ pc = "norm"
  /\ once' = apply(transform, input, arg_creator_slug)
  /\ pc' = "once"
  /\ UNCHANGED <<arg_creator_slug, match_vars, client_vars, transform, input, twice>>

ApplyTwice ==
  /\ pc = "once"
  /\ twice' = apply(transform, once, arg_creator_slug)
  /\ pc' = "twice"
  /\ UNCHANGED <<arg_creator_slug, match_vars, client_vars, transform, input, once>>

NextNorm == ApplyOnce \/ ApplyTwice

SpecNorm == InitNorm /\ [][NextNorm]_vars

(***************************************************************************)
(* The merge (merge_models, called at client/mod.rs 293 and 300)           *)
(***************************************************************************)
AaRecord(creator, slug) == [creator_slug |-> creator, slug |-> slug]

\* one MergedRow: the Provider-A fields, the matched flag, and the Provider-B
\* fields, which all come from the matched model or are all absent
MergedRow(record, match) ==
  [slug |-> record.slug,
   creator_slug |-> record.creator_slug,
   models_dev_matched |-> match # NoMatch,
   capabilities |-> IF match # NoMatch
                    THEN Some(Candidate(match.provider_id, match.model_id))
                    ELSE Absent]

\* one row per Provider-A record, in the order of the records
RECURSIVE merge_models_from(_, _, _)
merge_models_from(i, aa_models, order) ==
  IF i > Len(aa_models) THEN <<>>
  ELSE <<MergedRow(aa_models[i],
                   find_match(aa_models[i].creator_slug, aa_models[i].slug, order))>>
         \o merge_models_from(i + 1, aa_models, order)

merge_models(aa_models, order) == merge_models_from(1, aa_models, order)

(***************************************************************************)
(* The data the two sources serve                                          *)
(***************************************************************************)
AaData ==
  << <<AaRecord(Some(s_openai), s_gpt_5_medium), AaRecord(Some(s_mistral), s_mistral_medium)>>,
     <<AaRecord(Some(s_openai), s_gpt_5_medium), AaRecord(Some(s_mistral), s_mistral_medium),
       AaRecord(Some(s_meta), s_llama_3_70b)>> >>

MdData ==
  << {Candidate(s_openai, s_gpt_5), Candidate(s_mistral, s_mistral_large_3)},
     {Candidate(s_openai, s_gpt_5), Candidate(s_mistral, s_mistral_large_3),
      Candidate(s_llama, s_llama_3_70b)} >>

Range(f) == {f[i] : i \in DOMAIN f}

\* the merges a call can produce from given records and a given snapshot, one
\* for each iteration order of the snapshot
PossibleMerges(aa_models, snapshot) ==
  {merge_models(aa_models, o) : o \in IterationOrders(snapshot)}

\* PossibleMerges tabulated for the data above
RECURSIVE Tabulate(_)
Tabulate(D) ==
  IF D = {} THEN <<>>
  ELSE LET d == CHOOSE x \in D : TRUE
       IN (d :> PossibleMerges(d[1], d[2])) @@ Tabulate(D \ {d})

MergeTable == Tabulate(Range(AaData) \X (Range(MdData) \cup {{}}))

(***************************************************************************)
(* Client (client/mod.rs 256-495) and Cache::clear (cache.rs 143-154)      *)
(***************************************************************************)
MODELS_DEV_TTL_HOURS == 24

\* the ages at which the clock is observed: fresh, at the TTL, past the TTL
Ages == <<0, MODELS_DEV_TTL_HOURS, MODELS_DEV_TTL_HOURS + 1>>

\* the writes of one call; at most one of them fails
Writes == {"aa_llms.parquet", "models_dev.parquet", "models_dev_cache.json",
           "models_dev_meta.txt", "llms.parquet"}

\* meta is the Option holding the age of the timestamp: a missing or
\* unreadable file is expired, otherwise age > Duration::hours(24)
is_models_dev_expired(meta) ==
  IF ~is_some(meta) THEN TRUE ELSE unwrap(meta) > MODELS_DEV_TTL_HOURS

\* evaluated after the fetch, on the file as the fetch left it
is_models_dev_changed(md_path_exists) == ~md_path_exists

\* fetch_models_dev_if_needed without the fallback to the stale cache: a
\* failed fetch is always an error
fetch_models_dev_no_fallback(online, failing) ==
  IF md_file /\ ~is_models_dev_expired(md_meta) /\ is_some(md_json)
  THEN [value |-> Ok(unwrap(md_json)), fetched |-> FALSE,
        md_file |-> md_file, md_json |-> md_json, md_meta |-> md_meta]
  ELSE IF online
       THEN [value |-> Ok(md_remote), fetched |-> TRUE,
             md_file |-> md_file \/ failing # "models_dev.parquet",
             md_json |-> IF failing # "models_dev_cache.json" THEN Some(md_remote)
                         ELSE md_json,
             md_meta |-> IF failing # "models_dev_meta.txt" THEN Some(Ages[1])
                         ELSE md_meta]
       ELSE [value |-> Err, fetched |-> TRUE,
             md_file |-> md_file, md_json |-> md_json, md_meta |-> md_meta]

\* what fetch_models_dev_if_needed returns and leaves on disk; online tells
\* whether md_client.fetch() succeeds, failing is the write that fails
fetch_models_dev_if_needed(online, failing) ==
  IF md_file /\ ~is_models_dev_expired(md_meta) /\ is_some(md_json)
  THEN [value |-> Ok(unwrap(md_json)), fetched |-> FALSE,
        md_file |-> md_file, md_json |-> md_json, md_meta |-> md_meta]
  ELSE IF online
       THEN [value |-> Ok(md_remote), fetched |-> TRUE,
             md_file |-> md_file \/ failing # "models_dev.parquet",
             md_json |-> IF failing # "models_dev_cache.json" THEN Some(md_remote)
                         ELSE md_json,
             md_meta |-> IF failing # "models_dev_meta.txt" THEN Some(Ages[1])
                         ELSE md_meta]
       ELSE [value |-> IF is_some(md_json) THEN Ok(unwrap(md_json)) ELSE Err,
             fetched |-> TRUE,
             md_file |-> md_file, md_json |-> md_json, md_meta |-> md_meta]

\* merge_result with the empty map passed to the merge in both arms
merge_result_always_empty(aa_models, md_providers) ==
  {Ok(rows) : rows \in MergeTable[<<aa_models, {}>>]}

\* merge_result with the models.dev error propagated instead of replaced by
\* an empty snapshot
merge_result_or_fail(aa_models, md_providers) ==
  IF is_ok(md_providers)
  THEN {Ok(rows) : rows \in MergeTable[<<aa_models, md_providers[2]>>]}
  ELSE {Err}

\* the match on md_providers (client/mod.rs 292-302): the results the merge
\* can give; a failed models.dev fetch is merged as an empty snapshot
merge_result(aa_models, md_providers) ==
  IF is_ok(md_providers)
  THEN {Ok(rows) : rows \in MergeTable[<<aa_models, md_providers[2]>>]}
  ELSE {Ok(rows) : rows \in MergeTable[<<aa_models, {}>>]}

InitClient ==
  /\ pc = "client"
  /\ aa_remote = AaData[1]
  /\ md_remote = MdData[1]
  /\ aa_file = FALSE
  /\ md_file = FALSE
  /\ md_meta = Absent
  /\ md_json = Absent
  /\ merged_file = Absent
  /\ last = NoCall
  /\ arg_creator_slug = Absent
  /\ NoMatchCall
  /\ NoTransform

\* Client::get_llm_models(refresh); readable tells whether load_merged_cache
\* succeeds, aa_online and md_online whether the two network fetches succeed,
\* failing is the write that fails ("none": none)
GetLlmModels(refresh, readable, aa_online, md_online, failing) ==
  /\ pc = "client"
  /\ LET quick == /\ ~refresh
                  /\ is_some(merged_file)
                  /\ aa_file
                  /\ md_file
                  /\ ~is_models_dev_expired(md_meta)
                  /\ readable
     IN IF quick
        THEN /\ last' = [called |-> TRUE, refresh |-> refresh, quick |-> TRUE,
                         aa |-> Err, md |-> Err, fetched |-> FALSE,
                         md_online |-> FALSE, returned |-> Ok(unwrap(merged_file))]
             /\ UNCHANGED <<aa_file, md_file, md_meta, md_json, merged_file>>
        ELSE IF ~aa_online
        THEN \* fetch_aa_llms(refresh).await? returns the error
             /\ last' = [called |-> TRUE, refresh |-> refresh, quick |-> FALSE,
                         aa |-> Err, md |-> Err, fetched |-> FALSE,
                         md_online |-> FALSE, returned |-> Err]
             /\ UNCHANGED <<aa_file, md_file, md_meta, md_json, merged_file>>
        ELSE LET aa_models == aa_remote
                 aa_path_exists == aa_file \/ failing # "aa_llms.parquet"
                 aa_changed == refresh \/ ~aa_path_exists
                 md == fetch_models_dev_if_needed(md_online, failing)
                 md_changed == is_models_dev_changed(md.md_file)
             IN \E merged \in merge_result(aa_models, md.value) :
                  /\ aa_file' = aa_path_exists
                  /\ md_file' = md.md_file
                  /\ md_json' = md.md_json
                  /\ md_meta' = md.md_meta
                  /\ merged_file' =
                       IF /\ aa_changed \/ md_changed \/ ~is_some(merged_file)
                          /\ failing # "llms.parquet"
                          /\ is_ok(merged)
                       THEN Some(merged[2]) ELSE merged_file
                  /\ last' = [called |-> TRUE, refresh |-> refresh, quick |-> FALSE,
                              aa |-> Ok(aa_models), md |-> md.value,
                              fetched |-> md.fetched,
                              md_online |-> md.fetched /\ md_online,
                              returned |-> merged]
  /\ UNCHANGED <<pc, arg_creator_slug, match_vars, norm_vars, aa_remote, md_remote>>

Call ==
  \E refresh, readable, aa_online, md_online \in BOOLEAN,
     failing \in Writes \cup {"none"} :
    GetLlmModels(refresh, readable, aa_online, md_online, failing)

\* time passes: the timestamp of models_dev_meta.txt gets older
Tick ==
  /\ pc = "client"
  /\ is_some(md_meta)
  /\ \E k \in 1..(Len(Ages) - 1) :
       /\ unwrap(md_meta) = Ages[k]
       /\ md_meta' = Some(Ages[k + 1])
  /\ UNCHANGED <<pc, arg_creator_slug, match_vars, norm_vars, aa_remote, md_remote,
                 aa_file, md_file, md_json, merged_file, last>>

\* Artificial Analysis publishes other records
AaPublishes ==
  /\ pc = "client"
  /\ \E a \in Range(AaData) : a # aa_remote /\ aa_remote' = a
  /\ UNCHANGED <<pc, arg_creator_slug, match_vars, norm_vars, md_remote,
                 aa_file, md_file, md_meta, md_json, merged_file, last>>

\* models.dev publishes another snapshot
MdPublishes ==
  /\ pc = "client"
  /\ \E m \in Range(MdData) : m # md_remote /\ md_remote' = m
  /\ UNCHANGED <<pc, arg_creator_slug, match_vars, norm_vars, aa_remote,
                 aa_file, md_file, md_meta, md_json, merged_file, last>>

\* Cache::clear removes every .json and .parquet file of the cache directory
CacheClear ==
  /\ pc = "client"
  /\ aa_file' = FALSE
  /\ md_file' = FALSE
  /\ md_json' = Absent
  /\ merged_file' = Absent
  /\ UNCHANGED <<pc, arg_creator_slug, match_vars, norm_vars, aa_remote, md_remote,
                 md_meta, last>>

NextClient == Call \/ Tick \/ AaPublishes \/ MdPublishes \/ CacheClear

SpecClient == InitClient /\ [][NextClient]_vars

(***************************************************************************)
(* The whole model                                                         *)
(***************************************************************************)
Init == InitMatch \/ InitNorm \/ InitClient

Next == FindMatch \/ ApplyOnce \/ ApplyTwice \/ Call \/ Tick \/ AaPublishes
          \/ MdPublishes \/ CacheClear

Spec == Init /\ [][Next]_vars

(***************************************************************************)
(* The comparison of each of the nine strategies, stated for one          *)
(* candidate: Related(k, c, s, cand) holds when strategy k relates the    *)
(* slug s of a record of namespace c to the candidate.                     *)
(***************************************************************************)
alias_of(creator) == IF is_some(creator) THEN normalize_provider(unwrap(creator)) ELSE <<>>

alias_changed(creator) ==
  is_some(creator) /\ to_lowercase(unwrap(creator)) # alias_of(creator)

Related(k, creator, slug, cand) ==
  LET a == to_lowercase(slug)
      id == cand.model_id
      lower_id == to_lowercase(id)
      norm_id == to_lowercase(normalize_version_separators(id))
      bare_id == to_lowercase(strip_provider_prefix(id))
      r == strip_reasoning_suffix(a)
      x == expand_compressed_version(a)
      it == try_add_it_suffix(a)
      e == strip_effort_suffix_for_provider(a, creator)
  IN CASE k = 1 -> cand.provider_id = alias_of(creator) /\ lower_id = a
       [] k = 2 -> lower_id = a
       [] k = 3 -> \/ to_lowercase(strip_version_suffix(id)) = strip_version_suffix(a)
                   \/ to_lowercase(strip_version_suffix(id)) = a
       [] k = 4 -> \/ lower_id = normalize_version_separators(a)
                   \/ norm_id = a
       [] k = 5 -> bare_id = a
       [] k = 6 -> /\ is_some(r)
                   /\ \/ lower_id = unwrap(r)
                      \/ lower_id = normalize_version_separators(unwrap(r))
                      \/ norm_id = unwrap(r)
                      \/ bare_id = unwrap(r)
       [] k = 7 -> /\ x # a
                   /\ \/ lower_id = x
                      \/ lower_id = normalize_version_separators(x)
                      \/ norm_id = x
       [] k = 8 -> is_some(it) /\ lower_id = unwrap(it)
       [] k = 9 -> /\ is_some(e)
                   /\ \/ lower_id = unwrap(e)
                      \/ lower_id = normalize_version_separators(unwrap(e))
                      \/ norm_id = unwrap(e)

\* the tag of strategy k
TagOf(k, creator) ==
  CASE k = 1 -> IF alias_changed(creator) THEN "NormalizedProvider" ELSE "Exact"
    [] k = 2 -> "Exact"
    [] k = 3 -> "Fuzzy"
    [] k = 4 -> "NormalizedVersionSeparator"
    [] k = 5 -> "StrippedProviderPrefix"
    [] k = 6 -> "ReasoningVariant"
    [] k = 7 -> "ExpandedVersion"
    [] k = 8 -> "GemmaItSuffix"
    [] k = 9 -> "EffortLevel"

\* the strategies that relate the record of the current call to some candidate
Satisfied ==
  {k \in 1..9 : \E cand \in providers : Related(k, arg_creator_slug, arg_model_slug, cand)}

Lowest(K) == CHOOSE k \in K : \A j \in K : k <= j

\* the candidate a result refers to
Found == Candidate(result.provider_id, result.model_id)

ExactExists == \E cand \in providers : Related(2, arg_creator_slug, arg_model_slug, cand)
FuzzyExists == \E cand \in providers : Related(3, arg_creator_slug, arg_model_slug, cand)

(***************************************************************************)
(* Claims                                                                  *)
(***************************************************************************)
\* C1: find_match reports the tag of the lowest-numbered strategy whose
\* comparison some candidate satisfies, for one candidate of the snapshot,
\* and reports no match exactly when no strategy is satisfied.
C1_FirstStrategyWins ==
  pc = "done" =>
    IF Satisfied = {} THEN result = NoMatch
    ELSE /\ result.match_type = TagOf(Lowest(Satisfied), arg_creator_slug)
         /\ Found \in providers

\* a call in which a later strategy is satisfied as well as the reported one
C1_Witness ==
  /\ pc = "done"
  /\ Cardinality(Satisfied) >= 2
  /\ Lowest(Satisfied) >= 3
  /\ result.match_type = TagOf(Lowest(Satisfied), arg_creator_slug)

\* C2 as stated: with an exact and a fuzzy match both present the tag is Exact.
C2_ExactNeverFuzzy_Original ==
  (pc = "done" /\ ExactExists /\ FuzzyExists) => result.match_type = "Exact"

\* whether strategy 1 finds the exact match under a namespace the alias table rewrote
ExactUnderAlias ==
  /\ alias_changed(arg_creator_slug)
  /\ \E cand \in providers : Related(1, arg_creator_slug, arg_model_slug, cand)

\* C2 amended: with an exact and a fuzzy match both present the tag is never
\* Fuzzy; it is NormalizedProvider when the exact match lies in the namespace
\* the alias table rewrote the record's namespace to, and Exact otherwise.
C2_ExactNeverFuzzy ==
  (pc = "done" /\ ExactExists /\ FuzzyExists) =>
    result.match_type = IF ExactUnderAlias THEN "NormalizedProvider" ELSE "Exact"

\* an exact candidate and a different, fuzzy-only candidate in one snapshot
C2_Witness ==
  /\ pc = "done"
  /\ result.match_type = "Exact"
  /\ \E c1, c2 \in providers :
       /\ Related(2, arg_creator_slug, arg_model_slug, c1)
       /\ ~Related(2, arg_creator_slug, arg_model_slug, c2)
       /\ Related(3, arg_creator_slug, arg_model_slug, c2)

\* C3: the provider id and the model that find_match returns are the same for
\* every iteration order of the provider map and of the model maps.
C3_SameResultForEveryOrder ==
  pc = "done" =>
    \A o \in IterationOrders(providers) :
      LET other == find_match(arg_creator_slug, arg_model_slug, o)
      IN other.provider_id = result.provider_id /\ other.model_id = result.model_id

\* whether the candidate lies in the record's own namespace
InOwnNamespace(cand) ==
  /\ is_some(arg_creator_slug)
  /\ to_lowercase(cand.provider_id) = to_lowercase(unwrap(arg_creator_slug))

\* C4: a candidate whose id equals the slug once both are lowercased is always
\* matched, with tag Exact when it lies in the record's own namespace and the
\* alias table leaves that namespace alone.
C4_CaseInsensitiveExact ==
  pc = "done" =>
    \A cand \in providers :
      to_lowercase(cand.model_id) = to_lowercase(arg_model_slug) =>
        /\ result # NoMatch
        /\ (InOwnNamespace(cand) /\ ~alias_changed(arg_creator_slug))
             => result.match_type = "Exact"

\* the slug and the candidate id differ in letter case only
C4_Witness ==
  /\ pc = "done"
  /\ result.match_type = "Exact"
  /\ ~alias_changed(arg_creator_slug)
  /\ \E cand \in providers :
       /\ InOwnNamespace(cand)
       /\ cand.model_id # arg_model_slug
       /\ to_lowercase(cand.model_id) = to_lowercase(arg_model_slug)
       /\ Found = cand

\* the snapshot with every model id lowercased
Lowercased(snapshot) ==
  {Candidate(cand.provider_id, to_lowercase(cand.model_id)) : cand \in snapshot}

\* C5: the letter case of the slug and of the candidate ids changes neither
\* whether a match is found nor the tag: the call gives the tag that the
\* lowercased slug gives against the lowercased snapshot.
C5_CaseNeverMatters ==
  pc = "done" =>
    \A o \in IterationOrders(Lowercased(providers)) :
      find_match(arg_creator_slug, to_lowercase(arg_model_slug), o).match_type
        = result.match_type

\* whether the record's namespace is outside the effort allow-list
NotAllowListed ==
  \/ ~is_some(arg_creator_slug)
  \/ to_lowercase(unwrap(arg_creator_slug)) \notin {s_google, s_openai, s_anthropic}

MistralMedium ==
  /\ arg_creator_slug = Some(s_mistral)
  /\ arg_model_slug = s_mistral_medium
  /\ providers = {Candidate(s_mistral, s_mistral)}

\* C6: a record whose namespace is absent or not google, openai or anthropic
\* never gets tag EffortLevel, and mistral-medium of namespace mistral finds
\* no match in a snapshot holding only mistral/mistral.
C6_EffortGated ==
  pc = "done" =>
    /\ NotAllowListed => result.match_type # "EffortLevel"
    /\ MistralMedium => result = NoMatch

\* a slug that ends in an effort suffix whose base is a candidate, under a
\* namespace outside the allow-list
C6_Witness ==
  /\ pc = "done"
  /\ NotAllowListed
  /\ \E k \in 1..Len(EffortSuffixes) :
       /\ ends_with(to_lowercase(arg_model_slug), EffortSuffixes[k])
       /\ \E cand \in providers :
            to_lowercase(cand.model_id)
              = drop_suffix(to_lowercase(arg_model_slug), EffortSuffixes[k])
  /\ result = NoMatch

UnknownModel ==
  /\ arg_creator_slug = Some(s_unknown)
  /\ arg_model_slug = s_unknown_model
  /\ providers = {Candidate(s_openai, s_gpt_4o)}

\* C7: a match is returned only for a candidate of the snapshot that one of
\* the nine strategies relates to the slug, under the tag of that strategy;
\* unknown/unknown-model finds no match in a snapshot holding only openai/gpt-4o.
C7_NoFalsePositive ==
  pc = "done" =>
    /\ result # NoMatch =>
         /\ Found \in providers
         /\ \E k \in 1..9 :
              /\ Related(k, arg_creator_slug, arg_model_slug, Found)
              /\ result.match_type = TagOf(k, arg_creator_slug)
    /\ UnknownModel => result = NoMatch

\* a non-empty snapshot none of whose candidates is related to the slug
C7_Witness ==
  /\ pc = "done"
  /\ providers # {}
  /\ Satisfied = {}
  /\ result = NoMatch

\* the call of get_llm_models that got the records of Artificial Analysis and
\* no snapshot of models.dev: neither a fresh one nor a stale one
SnapshotUnavailable ==
  /\ pc = "client"
  /\ last.called
  /\ ~last.quick
  /\ is_ok(last.aa)
  /\ ~is_ok(last.md)

\* rows holds one unmatched row per record of aa_models, in their order
AllUnmatched(rows, aa_models) ==
  /\ Len(rows) = Len(aa_models)
  /\ \A i \in 1..Len(rows) :
       /\ rows[i].slug = aa_models[i].slug
       /\ rows[i].creator_slug = aa_models[i].creator_slug
       /\ ~rows[i].models_dev_matched
       /\ rows[i].capabilities = Absent

\* C8: when the models.dev snapshot cannot be obtained the call does not fail
\* but returns the merge over an empty snapshot; find_match finds nothing in an
\* empty snapshot, so every record of Artificial Analysis comes out unmatched.
C8_EmptySnapshotFallback ==
  /\ (pc = "done" /\ providers = {}) => result = NoMatch
  /\ SnapshotUnavailable =>
       /\ is_ok(last.returned)
       /\ AllUnmatched(last.returned[2], last.aa[2])

\* a call that lost models.dev and returned the records unmatched
C8_Witness ==
  /\ SnapshotUnavailable
  /\ is_ok(last.returned)
  /\ Len(last.returned[2]) > 0
  /\ AllUnmatched(last.returned[2], last.aa[2])

\* C9: every normalizer is idempotent, f(f(x)) = f(x).
C9_Idempotent == pc = "twice" => twice = once

\* the target convention of each of the four rewriting normalizers
HasVersionSuffix(s) ==
  \E i \in 1..Len(s) :
    RE_DATE(Tail_from(s, i)) \/ RE_DATE_DASHED(Tail_from(s, i)) \/ RE_VERSION(Tail_from(s, i))

HasDotBetweenDigits(s) ==
  \E i \in 1..Len(s) : i + 2 <= Len(s) /\ IsDigit(s[i]) /\ s[i + 1] = "." /\ IsDigit(s[i + 2])

HasCompressedSegment(s) ==
  \E i \in 1..Len(s) :
    /\ i + 2 <= Len(s)
    /\ s[i] = "-" /\ IsDigit(s[i + 1]) /\ IsDigit(s[i + 2])
    /\ (i + 2 = Len(s) \/ s[i + 3] = "-")

HasSlash(s) == \E i \in 1..Len(s) : s[i] = "/"

AlreadyNormalized(t, s) ==
  CASE t = "strip_version_suffix" -> ~HasVersionSuffix(s)
    [] t = "normalize_version_separators" -> ~HasDotBetweenDigits(s)
    [] t = "expand_compressed_version" -> ~HasCompressedSegment(s)
    [] t = "strip_provider_prefix" -> ~HasSlash(s)
    [] OTHER -> FALSE

\* C10: strip_version_suffix, normalize_version_separators,
\* expand_compressed_version and strip_provider_prefix return their input
\* unchanged when it already satisfies the transform's target convention.
C10_NoOpWhenNormalized ==
  (pc = "once" /\ AlreadyNormalized(transform, input)) => once = input

\* the no-op case of the unit test: gemini-2-5-flash has no dot to rewrite
C10_Witness ==
  /\ pc = "once"
  /\ transform = "normalize_version_separators"
  /\ input = s_gemini_2_5_flash
  /\ AlreadyNormalized(transform, input)
  /\ once = input

\* C11: no normalizer and no call of find_match panics, whatever the input (the
\* empty string, a string ending in a slash, an absent namespace, an empty
\* snapshot); a call that finds nothing returns None, any other call returns a
\* candidate of the snapshot with one of the nine tags.
C11_TotalNoPanic ==
  /\ pc \in {"once", "twice"} => once # Panic
  /\ pc = "twice" => twice # Panic
  /\ pc = "done" => \/ result = NoMatch
                    \/ result.match_type \in MatchType /\ Found \in providers

\* strip_provider_prefix applied to a string that ends with its first slash
C11_Witness ==
  /\ pc = "twice"
  /\ transform = "strip_provider_prefix"
  /\ Len(input) >= 2
  /\ find_slash(input) = Len(input)
  /\ once = <<>>

\* a call of get_llm_models that fetched the records and merged them
Merged ==
  /\ pc = "client"
  /\ last.called
  /\ ~last.quick
  /\ is_ok(last.aa)
  /\ is_ok(last.returned)

\* the snapshot the merge of the last call was given
SnapshotOfMerge == IF is_ok(last.md) THEN last.md[2] ELSE {}

\* C12: the merge returns one row per record of Artificial Analysis, in their
\* order; the matched flag of a row tells whether find_match returns a result
\* for its record against the snapshot, and the models.dev fields of a row
\* whose flag is false are absent.
C12_OneRowPerRecord ==
  Merged =>
    LET rows == last.returned[2]
        aa_models == last.aa[2]
    IN /\ Len(rows) = Len(aa_models)
       /\ \A i \in 1..Len(rows) :
            /\ rows[i].slug = aa_models[i].slug
            /\ rows[i].creator_slug = aa_models[i].creator_slug
            /\ \A o \in IterationOrders(SnapshotOfMerge) :
                 rows[i].models_dev_matched
                   = (find_match(aa_models[i].creator_slug, aa_models[i].slug, o) # NoMatch)
            /\ ~rows[i].models_dev_matched => rows[i].capabilities = Absent

\* a merge that gives a matched row and an unmatched row
C12_Witness ==
  /\ Merged
  /\ \E i, j \in 1..Len(last.returned[2]) :
       /\ last.returned[2][i].models_dev_matched
       /\ last.returned[2][i].capabilities # Absent
       /\ ~last.returned[2][j].models_dev_matched

\* strategies 1 and 2 find nothing for the record of the current call
NoExactMatch ==
  \A cand \in providers : /\ ~Related(1, arg_creator_slug, arg_model_slug, cand)
                          /\ ~Related(2, arg_creator_slug, arg_model_slug, cand)

\* direction (a): the slug carries a suffix and equals the candidate id once
\* both are stripped
FuzzyBothStripped(cand) ==
  LET a == to_lowercase(arg_model_slug)
  IN /\ strip_version_suffix(a) # a
     /\ to_lowercase(strip_version_suffix(cand.model_id)) = strip_version_suffix(a)

\* direction (b): the unmodified slug equals the stripped candidate id
FuzzyCandidateStripped(cand) ==
  to_lowercase(strip_version_suffix(cand.model_id)) = to_lowercase(arg_model_slug)

\* C13: when strategies 1 and 2 find nothing and some candidate id, stripped of
\* its date/version suffix, equals the stripped slug or the unmodified slug,
\* find_match reports tag Fuzzy.
C13_FuzzyBothDirections ==
  (/\ pc = "done"
   /\ NoExactMatch
   /\ \E cand \in providers : FuzzyBothStripped(cand) \/ FuzzyCandidateStripped(cand))
    => /\ result.match_type = "Fuzzy"
       /\ FuzzyBothStripped(Found) \/ FuzzyCandidateStripped(Found)

\* a slug without a suffix matched to a candidate that carries one, as
\* claude-3-5-sonnet to claude-3-5-sonnet-20241022
C13_Witness ==
  /\ pc = "done"
  /\ NoExactMatch
  /\ result.match_type = "Fuzzy"
  /\ FuzzyCandidateStripped(Found)
  /\ ~FuzzyBothStripped(Found)
  /\ strip_version_suffix(Found.model_id) # Found.model_id

\* the record's namespace is one of the spellings of the alias table
InAliasTable ==
  /\ is_some(arg_creator_slug)
  /\ to_lowercase(unwrap(arg_creator_slug)) \in {s_meta, s_meta_llama, s_x_ai, s_x_dot_ai}

\* the namespace strategy 1 looks the slug up in
ResolvedNamespace ==
  IF ~is_some(arg_creator_slug) THEN <<>>
  ELSE LET lower == to_lowercase(unwrap(arg_creator_slug))
       IN IF lower \in {s_meta, s_meta_llama} THEN s_llama
          ELSE IF lower \in {s_x_ai, s_x_dot_ai} THEN s_xai
          ELSE lower

\* strategy 1 hits: the resolved namespace holds a model id equal to the slug
\* once both are lowercased
StrategyOneHit ==
  \E cand \in providers :
    /\ cand.provider_id = ResolvedNamespace
    /\ to_lowercase(cand.model_id) = to_lowercase(arg_model_slug)

\* C14: a hit of strategy 1 lies in the resolved namespace and is tagged
\* NormalizedProvider when the namespace is a spelling of the alias table
\* (meta, meta-llama, x-ai, x.ai in any letter case) and Exact otherwise, also
\* for a namespace that differs from its lowercased form by letter case only.
C14_NormalizedProviderTag ==
  (pc = "done" /\ StrategyOneHit) =>
    /\ result.provider_id = ResolvedNamespace
    /\ result.match_type = IF InAliasTable THEN "NormalizedProvider" ELSE "Exact"

\* a namespace spelled in upper case that the alias table rewrites
C14_Witness ==
  /\ pc = "done"
  /\ StrategyOneHit
  /\ InAliasTable
  /\ unwrap(arg_creator_slug) # to_lowercase(unwrap(arg_creator_slug))
  /\ result.match_type = "NormalizedProvider"

\* no candidate is related to the slug by a strategy numbered below k
NothingBelow(k) ==
  \A cand \in providers :
    \A j \in 1..(k - 1) : ~Related(j, arg_creator_slug, arg_model_slug, cand)

\* the lowercased slug without its -non-reasoning or -reasoning suffix
ReasoningBase ==
  LET a == to_lowercase(arg_model_slug)
  IN IF ends_with(a, s_non_reasoning) THEN SubSeq(a, 1, Len(a) - Len(s_non_reasoning))
     ELSE SubSeq(a, 1, Len(a) - Len(s_reasoning))

HasReasoningSuffix == ends_with(to_lowercase(arg_model_slug), s_reasoning)

\* the comparison of sub-step j of a suffix strategy: the base against the
\* candidate id directly (1), with the separators of the base normalized (2),
\* with the separators of the candidate id normalized (3), with the provider
\* prefix of the candidate id stripped (4)
SubStep(j, base, cand) ==
  CASE j = 1 -> to_lowercase(cand.model_id) = base
    [] j = 2 -> to_lowercase(cand.model_id) = normalize_version_separators(base)
    [] j = 3 -> to_lowercase(normalize_version_separators(cand.model_id)) = base
    [] j = 4 -> to_lowercase(strip_provider_prefix(cand.model_id)) = base

\* the sub-steps among 1..n that some candidate satisfies
SubStepsHit(n, base) == {j \in 1..n : \E cand \in providers : SubStep(j, base, cand)}

\* C15: when strategies 1 to 5 find nothing and the slug ends with -reasoning
\* or -non-reasoning, the slug without that suffix is compared directly, with
\* its separators normalized, with the candidate's separators normalized and
\* with the candidate's prefix stripped, in this order; the candidate of the
\* first comparison that hits is returned with tag ReasoningVariant.
C15_ReasoningVariant ==
  (/\ pc = "done"
   /\ NothingBelow(6)
   /\ HasReasoningSuffix
   /\ SubStepsHit(4, ReasoningBase) # {})
    => /\ result.match_type = "ReasoningVariant"
       /\ SubStep(Lowest(SubStepsHit(4, ReasoningBase)), ReasoningBase, Found)

\* a hit of the third comparison only, as gemini-2-5-flash-reasoning against
\* gemini-2.5-flash
C15_Witness ==
  /\ pc = "done"
  /\ NothingBelow(6)
  /\ HasReasoningSuffix
  /\ SubStepsHit(4, ReasoningBase) = {3}
  /\ result.match_type = "ReasoningVariant"

\* the record's namespace is google, openai or anthropic in some letter case
AllowListed ==
  /\ is_some(arg_creator_slug)
  /\ to_lowercase(unwrap(arg_creator_slug)) \in {s_google, s_openai, s_anthropic}

\* the effort suffixes the lowercased slug ends with
EffortSuffixesOfSlug ==
  {x \in {s_low, s_medium, s_high, s_minimal} : ends_with(to_lowercase(arg_model_slug), x)}

\* the lowercased slug without its effort suffix
EffortBase ==
  LET a == to_lowercase(arg_model_slug)
      x == CHOOSE y \in EffortSuffixesOfSlug : TRUE
  IN SubSeq(a, 1, Len(a) - Len(x))

\* C16: when strategies 1 to 8 find nothing, the namespace is google, openai or
\* anthropic in any letter case and the slug ends with -low, -medium, -high or
\* -minimal, the slug without that suffix is compared directly, with its
\* separators normalized and with the candidate's separators normalized; the
\* candidate of the first comparison that hits is returned with tag EffortLevel.
C16_EffortLevel ==
  (/\ pc = "done"
   /\ NothingBelow(9)
   /\ AllowListed
   /\ EffortSuffixesOfSlug # {}
   /\ SubStepsHit(3, EffortBase) # {})
    => /\ result.match_type = "EffortLevel"
       /\ SubStep(Lowest(SubStepsHit(3, EffortBase)), EffortBase, Found)

\* an effort suffix stripped under a namespace of the allow-list spelled with
\* upper-case letters
C16_Witness ==
  /\ pc = "done"
  /\ NothingBelow(9)
  /\ AllowListed
  /\ unwrap(arg_creator_slug) # to_lowercase(unwrap(arg_creator_slug))
  /\ EffortSuffixesOfSlug # {}
  /\ result.match_type = "EffortLevel"
  /\ SubStep(1, EffortBase, Found)

\* the comparison of each of the eighteen sub-steps 1, 2, 3a, 3b, 4a, 4b, 5,
\* 6a-6d, 7a-7c, 8, 9a-9c, together with the condition under which the
\* sub-step applies
SubStepHolds(k, cand) ==
  LET a == to_lowercase(arg_model_slug)
      lower_id == to_lowercase(cand.model_id)
      stripped == strip_version_suffix(a)
      expanded == expand_compressed_version(a)
  IN CASE k = 1 -> cand.provider_id = ResolvedNamespace /\ lower_id = a
       [] k = 2 -> lower_id = a
       [] k = 3 -> stripped # a /\ to_lowercase(strip_version_suffix(cand.model_id)) = stripped
       [] k = 4 -> to_lowercase(strip_version_suffix(cand.model_id)) = a
       [] k = 5 -> SubStep(2, a, cand)
       [] k = 6 -> SubStep(3, a, cand)
       [] k = 7 -> SubStep(4, a, cand)
       [] k \in 8..11 -> HasReasoningSuffix /\ SubStep(k - 7, ReasoningBase, cand)
       [] k \in 12..14 -> expanded # a /\ SubStep(k - 11, expanded, cand)
       [] k = 15 -> /\ starts_with(a, s_gemma)
                    /\ ~ends_with(a, s_it)
                    /\ lower_id = a \o s_it
       [] k \in 16..18 -> /\ AllowListed
                          /\ EffortSuffixesOfSlug # {}
                          /\ SubStep(k - 15, EffortBase, cand)

\* C17: a sub-step that fails or does not apply stops nothing: whenever the
\* comparison of any of the eighteen sub-steps holds for some candidate, the
\* call returns a match, so that no match is returned only after all of them
\* have failed against every candidate.
C17_NoShortCircuit ==
  (pc = "done" /\ \E k \in 1..LastStep : \E cand \in providers : SubStepHolds(k, cand))
    => result # NoMatch

\* a hit of the candidate-side sub-step 4b for a slug whose separators need no
\* normalizing and that carries no suffix, so that 3a and 4a do not apply
C17_Witness ==
  /\ pc = "done"
  /\ strip_version_suffix(to_lowercase(arg_model_slug)) = to_lowercase(arg_model_slug)
  /\ normalize_version_separators(to_lowercase(arg_model_slug)) = to_lowercase(arg_model_slug)
  /\ \A cand \in providers : \A k \in 1..5 : ~SubStepHolds(k, cand)
  /\ \E cand \in providers : SubStepHolds(6, cand)
  /\ result.match_type = "NormalizedVersionSeparator"

\* C18: whether a match is found, and its tag, are the same for every
\* iteration order of the provider map and of the model maps.
C18_TagForEveryOrder ==
  pc = "done" =>
    \A o \in IterationOrders(providers) :
      find_match(arg_creator_slug, arg_model_slug, o).match_type = result.match_type

\* another iteration order returns another model with the same tag
C18_Witness ==
  /\ pc = "done"
  /\ result # NoMatch
  /\ \E o \in IterationOrders(providers) :
       LET other == find_match(arg_creator_slug, arg_model_slug, o)
       IN /\ other.match_type = result.match_type
          /\ Candidate(other.provider_id, other.model_id) # Found

\* position i of s holds a dot that stands between two digits
DotBetweenDigits(s, i) ==
  /\ 1 < i /\ i < Len(s)
  /\ s[i] = "."
  /\ IsDigit(s[i - 1]) /\ IsDigit(s[i + 1])

\* C19: normalize_version_separators replaces every dot between two digits by
\* a dash and leaves every other character as it is, so that its result holds
\* no dot between two digits.
C19_EveryDotBetweenDigits ==
  (pc = "once" /\ transform = "normalize_version_separators") =>
    /\ Len(once) = Len(input)
    /\ \A i \in 1..Len(input) :
         once[i] = IF DotBetweenDigits(input, i) THEN "-" ELSE input[i]
    /\ \A i \in 1..Len(once) : ~DotBetweenDigits(once, i)

\* position i of s starts a segment made of a hyphen, exactly two digits, and
\* a following hyphen or the end of the string
CompressedSegment(s, i) ==
  /\ i + 2 <= Len(s)
  /\ s[i] = "-" /\ IsDigit(s[i + 1]) /\ IsDigit(s[i + 2])
  /\ i + 2 = Len(s) \/ s[i + 3] = "-"

\* s from position i on with every such segment split; the hyphen that ends a
\* segment may start the next one
RECURSIVE SplitSegments(_, _)
SplitSegments(s, i) ==
  IF i > Len(s) THEN <<>>
  ELSE IF CompressedSegment(s, i)
       THEN <<"-", s[i + 1], "-", s[i + 2]>> \o SplitSegments(s, i + 3)
       ELSE <<s[i]>> \o SplitSegments(s, i + 1)

\* C20: expand_compressed_version splits every segment made of a hyphen,
\* exactly two digits and a following hyphen or the end of the string, also
\* segments that share a hyphen, and leaves everything else as it is.
C20_EverySegmentSplit ==
  (pc = "once" /\ transform = "expand_compressed_version") =>
    once = SplitSegments(input, 1)

\* s ends with a suffix of the form re
EndsWithForm(s, re) == \E i \in 1..Len(s) : is_match(re, Tail_from(s, i))

\* s without its last n characters
CutLast(s, n) == SubSeq(s, 1, Len(s) - n)

\* the position of the last hyphen of s, 0 when there is none
LastHyphen(s) ==
  LET P == {i \in 1..Len(s) : s[i] = "-"}
  IN IF P = {} THEN 0 ELSE CHOOSE i \in P : \A j \in P : j <= i

VersionForms == {"RE_DATE", "RE_DATE_DASHED", "RE_VERSION"}

\* C21 as stated: strip_version_suffix removes exactly one trailing suffix of
\* the form -YYYYMMDD, -YYYY-MM-DD or -vN(.N)* when the input ends with one,
\* never more than that one suffix, and returns the input unchanged otherwise.
C21_OneSuffixRemoved_Original ==
  (pc = "once" /\ transform = "strip_version_suffix") =>
    IF \E re \in VersionForms : EndsWithForm(input, re)
    THEN \E re \in VersionForms : \E i \in 1..Len(input) :
           /\ is_match(re, Tail_from(input, i))
           /\ once = SubSeq(input, 1, i - 1)
    ELSE once = input

\* C21 amended: strip_version_suffix removes a trailing -YYYYMMDD, then from
\* what remains a trailing -YYYY-MM-DD, then from what remains a trailing
\* -vN(.N)*, at most one suffix of each form, and returns the input unchanged
\* when it ends with none of the three.
C21_SuffixOfEachFormRemoved ==
  (pc = "once" /\ transform = "strip_version_suffix") =>
    LET a == IF EndsWithForm(input, "RE_DATE") THEN CutLast(input, 9) ELSE input
        b == IF EndsWithForm(a, "RE_DATE_DASHED") THEN CutLast(a, 11) ELSE a
        c == IF EndsWithForm(b, "RE_VERSION") THEN SubSeq(b, 1, LastHyphen(b) - 1) ELSE b
    IN /\ once = c
       /\ (\A re \in VersionForms : ~EndsWithForm(input, re)) => once = input

\* C21 witness: a call has removed a date and the version suffix before it
C21_Witness ==
  /\ pc = "once" /\ transform = "strip_version_suffix"
  /\ EndsWithForm(input, "RE_DATE")
  /\ EndsWithForm(CutLast(input, 9), "RE_VERSION")
  /\ Len(once) < Len(input) - 9

\* the separator comparisons that some candidate satisfies: the slug with its
\* separators normalized against the candidate id (2), the slug against the
\* candidate id with its separators normalized (3)
SeparatorStepsHit == SubStepsHit(3, to_lowercase(arg_model_slug)) \ {1}

\* C22: when strategies 1 to 3 find nothing and the slug with its dots between
\* digits turned into dashes equals a candidate id, or the unmodified slug
\* equals a candidate id with its separators normalized, find_match reports
\* tag NormalizedVersionSeparator for such a candidate, the first direction
\* being tried first.
C22_SeparatorBothDirections ==
  (/\ pc = "done"
   /\ NothingBelow(4)
   /\ SeparatorStepsHit # {})
    => /\ result.match_type = "NormalizedVersionSeparator"
       /\ SubStep(Lowest(SeparatorStepsHit), to_lowercase(arg_model_slug), Found)

\* C22 witness: a slug written with dashes is matched to a candidate id written
\* with a dot, as gpt-4-1-mini to gpt-4.1-mini, which the first direction
\* cannot find
C22_Witness ==
  /\ pc = "done"
  /\ NothingBelow(4)
  /\ SeparatorStepsHit = {3}
  /\ result.match_type = "NormalizedVersionSeparator"
  /\ Found.model_id # normalize_version_separators(Found.model_id)

\* the lowercased slug is the id of a candidate of some namespace
SlugIsSomeId == \E cand \in providers : cand.model_id = to_lowercase(arg_model_slug)

\* the snapshot has no namespace of the name strategy 1 looks the slug up in
NamespaceUnknown == \A cand \in providers : cand.provider_id # ResolvedNamespace

\* C23 as stated: a slug whose lowercased form is a candidate id of any
\* namespace is matched with tag Exact, whatever the record's namespace is.
C23_ExactInAnyNamespace_Original ==
  (pc = "done" /\ SlugIsSomeId) => result.match_type = "Exact"

\* C23 amended: a slug whose lowercased form is a candidate id of any namespace
\* is matched to a candidate whose lowercased id is the slug, also when the
\* record's namespace is absent, unknown or another one; the tag is Exact,
\* except that it is NormalizedProvider when the alias table rewrote the
\* record's namespace and the rewritten namespace holds such a candidate.
C23_ExactInAnyNamespace ==
  (pc = "done" /\ SlugIsSomeId) =>
    /\ result # NoMatch
    /\ to_lowercase(result.model_id) = to_lowercase(arg_model_slug)
    /\ result.match_type =
         IF InAliasTable /\ StrategyOneHit THEN "NormalizedProvider" ELSE "Exact"

\* C23 witness: the record names a namespace the snapshot does not have, and
\* the slug is found under another namespace
C23_Witness ==
  /\ pc = "done"
  /\ SlugIsSomeId
  /\ is_some(arg_creator_slug)
  /\ NamespaceUnknown
  /\ result.match_type = "Exact"
  /\ Found \in providers

\* the candidate id holds a slash, and what follows its first slash equals the
\* slug once lowercased
EqualsAfterFirstSlash(cand) ==
  LET id == cand.model_id
  IN \E i \in 1..Len(id) :
       /\ id[i] = "/"
       /\ \A j \in 1..(i - 1) : id[j] # "/"
       /\ to_lowercase(SubSeq(id, i + 1, Len(id))) = to_lowercase(arg_model_slug)

\* C24: when strategies 1 to 4 find nothing and the slug equals a candidate id
\* with everything up to and including its first slash removed, find_match
\* reports tag StrippedProviderPrefix for such a candidate; and the tag is
\* reported only for a candidate whose id holds a slash.
C24_StrippedProviderPrefix ==
  pc = "done" =>
    /\ (NothingBelow(5) /\ \E cand \in providers : EqualsAfterFirstSlash(cand))
         => /\ result.match_type = "StrippedProviderPrefix"
            /\ EqualsAfterFirstSlash(Found)
    /\ result.match_type = "StrippedProviderPrefix"
         => /\ Found \in providers
            /\ HasSlash(result.model_id)
            /\ EqualsAfterFirstSlash(Found)

\* C24 witness: a slug matched to a candidate id that carries a namespace
\* prefix, as mistral-large-3 to mistral/mistral-large-3
C24_Witness ==
  /\ pc = "done"
  /\ NothingBelow(5)
  /\ arg_model_slug # <<>>
  /\ result.match_type = "StrippedProviderPrefix"
  /\ EqualsAfterFirstSlash(Found)

\* the lowercased slug with its compressed segments expanded
ExpandedSlug == expand_compressed_version(to_lowercase(arg_model_slug))

\* the expansion changes the slug
ExpansionApplies == ExpandedSlug # to_lowercase(arg_model_slug)

\* C25: when strategies 1 to 6 find nothing and the expansion changes the slug,
\* the expanded slug is compared with the candidate ids directly, with its own
\* separators normalized and with the candidate's separators normalized, in
\* this order, and the candidate of the first comparison that hits is returned
\* with tag ExpandedVersion; a slug without a compressed segment never gets
\* this tag.
C25_ExpandedVersion ==
  pc = "done" =>
    /\ (NothingBelow(7) /\ ExpansionApplies /\ SubStepsHit(3, ExpandedSlug) # {})
         => /\ result.match_type = "ExpandedVersion"
            /\ SubStep(Lowest(SubStepsHit(3, ExpandedSlug)), ExpandedSlug, Found)
    /\ result.match_type = "ExpandedVersion"
         => /\ HasCompressedSegment(to_lowercase(arg_model_slug))
            /\ ExpansionApplies

\* C25 witness: the expanded slug is found directly, as claude-35-sonnet
\* against claude-3-5-sonnet
C25_Witness ==
  /\ pc = "done"
  /\ NothingBelow(7)
  /\ ExpansionApplies
  /\ result.match_type = "ExpandedVersion"
  /\ to_lowercase(result.model_id) = ExpandedSlug

\* the slug belongs to the gemma family and carries no -it suffix yet
ItEligible(slug) == starts_with(slug, s_gemma) /\ ~ends_with(slug, s_it)

\* C26: tag GemmaItSuffix is reported only for a slug that starts with gemma-
\* and does not end with -it, and only for a candidate whose lowercased id is
\* the slug with -it appended; for every other slug try_add_it_suffix is
\* inapplicable and leaves the slug as it is.
C26_GemmaItOnlyWhenEligible ==
  /\ (pc = "done" /\ result.match_type = "GemmaItSuffix")
       => /\ ItEligible(to_lowercase(arg_model_slug))
          /\ Found \in providers
          /\ to_lowercase(result.model_id) = to_lowercase(arg_model_slug) \o s_it
  /\ (pc = "once" /\ transform = "try_add_it_suffix")
       => once = IF ItEligible(input) THEN input \o s_it ELSE input

\* C26 witness: a gemma slug matched to the candidate id that carries the -it
\* suffix, as gemma-3-12b to gemma-3-12b-it
C26_Witness ==
  /\ pc = "done"
  /\ result.match_type = "GemmaItSuffix"
  /\ ItEligible(to_lowercase(arg_model_slug))
  /\ to_lowercase(result.model_id) = to_lowercase(arg_model_slug) \o s_it

\* C27: strip_reasoning_suffix removes the whole of a trailing -non-reasoning,
\* which it tests before -reasoning, so that no -non is left behind by it;
\* it removes a trailing -reasoning otherwise; and it returns absent, leaving
\* the slug as it is, for a slug with neither suffix, also one that ends with
\* -low, -medium or -high.
C27_NonReasoningFirst ==
  (pc = "once" /\ transform = "strip_reasoning_suffix") =>
    IF ends_with(input, s_non_reasoning)
    THEN /\ once = CutLast(input, Len(s_non_reasoning))
         /\ strip_reasoning_suffix(input) = Some(once)
    ELSE IF ends_with(input, s_reasoning)
    THEN /\ once = CutLast(input, Len(s_reasoning))
         /\ strip_reasoning_suffix(input) = Some(once)
    ELSE /\ once = input
         /\ strip_reasoning_suffix(input) = Absent

\* C27 witness: -non-reasoning has been removed as a whole
C27_Witness ==
  /\ pc = "once" /\ transform = "strip_reasoning_suffix"
  /\ ends_with(input, s_non_reasoning)
  /\ once \o s_non_reasoning = input

\* C28: every result find_match returns names a model of the snapshot as the
\* snapshot spells it, together with the provider whose models map holds that
\* model, and it is one of the candidates the call visited.
C28_ResultFromSnapshot ==
  (pc = "done" /\ result # NoMatch) =>
    /\ \E cand \in providers :
         /\ cand.model_id = result.model_id
         /\ cand.provider_id = result.provider_id
    /\ \E i \in 1..Len(map_order) : map_order[i] = Found

\* C28 witness: the model id returned differs from its lowercased form and
\* from the slug, and another provider holds a model of the same id
C28_Witness ==
  /\ pc = "done"
  /\ result # NoMatch
  /\ result.model_id # to_lowercase(result.model_id)
  /\ result.model_id # arg_model_slug
  /\ \E cand \in providers :
       /\ cand.model_id = result.model_id
       /\ cand.provider_id # result.provider_id

\* a call of get_llm_models in which no write fails, that leaves the quick
\* path and in which a source changed: the Artificial Analysis data was
\* refreshed, models.dev was fetched again, or the merged file was missing
CallWithChange(refresh, readable, aa_online, md_online) ==
  /\ GetLlmModels(refresh, readable, aa_online, md_online, "none")
  /\ ~last'.quick
  /\ is_ok(last'.returned)
  /\ \/ refresh
     \/ last'.fetched /\ md_online
     \/ ~is_some(merged_file)

\* C29: a call of get_llm_models in which either source changed, or that finds
\* no merged file, leaves in the merged parquet cache the merge it returns, so
\* that a later quick-path call returns the merge of the current data.
C29_MergedRewritten ==
  [][\A refresh, readable, aa_online, md_online \in BOOLEAN :
       CallWithChange(refresh, readable, aa_online, md_online)
         => merged_file' = Some(last'.returned[2])]_vars

\* models_dev.parquet and the cached response exist and the timestamp is at
\* most MODELS_DEV_TTL_HOURS old
CacheWithinTtl ==
  /\ md_file
  /\ is_some(md_json)
  /\ is_some(md_meta)
  /\ unwrap(md_meta) <= MODELS_DEV_TTL_HOURS

\* a call of get_llm_models that reaches fetch_models_dev_if_needed
CallThatFetches(refresh, readable, aa_online, md_online, failing) ==
  /\ GetLlmModels(refresh, readable, aa_online, md_online, failing)
  /\ ~last'.quick
  /\ is_ok(last'.aa)

\* C30: fetch_models_dev_if_needed returns the cached snapshot without a
\* network call, and leaves the cache as it is, when the cache exists and is
\* within the TTL; when a fetch is attempted and fails it returns the stale
\* cached snapshot if there is one; and it returns the error only when the
\* fetch failed and there is no cached snapshot.
C30_CachedOrStaleOrError ==
  [][\A refresh, readable, aa_online, md_online \in BOOLEAN :
     \A failing \in Writes \cup {"none"} :
       CallThatFetches(refresh, readable, aa_online, md_online, failing) =>
         /\ CacheWithinTtl =>
              /\ ~last'.fetched
              /\ last'.md = Ok(unwrap(md_json))
              /\ md_json' = md_json /\ md_meta' = md_meta
         /\ (last'.fetched /\ ~md_online) =>
              /\ last'.md = IF is_some(md_json) THEN Ok(unwrap(md_json)) ELSE Err
              /\ md_json' = md_json /\ md_meta' = md_meta
         /\ last'.md = Err => (last'.fetched /\ ~md_online /\ ~is_some(md_json))]_vars

\* C30 witness: a fetch was attempted and failed, and the call went on with
\* the stale snapshot of an expired cache although models.dev serves another
C30_Witness ==
  /\ last.called
  /\ last.fetched
  /\ ~last.md_online
  /\ is_some(md_json)
  /\ last.md = Ok(unwrap(md_json))
  /\ is_models_dev_expired(md_meta)
  /\ md_remote # unwrap(md_json)

====
